---------------------------- MODULE Spec2Model ----------------------------
(***************************************************************************)
(* Model of the medical triage pipeline of chatbot/views.py                *)
(* (process_message), chatbot/nlp_processor.py (MedicalNLPProcessor) and   *)
(* chatbot/rag_retriever.py (RAGRetriever).                                *)
(*                                                                         *)
(* Text is a sequence of one-character strings over a small alphabet with  *)
(* two cases, a space and a comma, so that str.lower, str.strip, str.split *)
(* and the substring test `x in y` are computed, not assumed.              *)
(*                                                                         *)
(* Environment of Spec: requests are well-formed JSON and carry a session  *)
(* id, the Django cache backend answers, and writes to the database        *)
(* (profile, session, messages, logs) succeed unless dbFaulty is set.      *)
(* Reads of the three reference tables may fail at any fetch.              *)
(***************************************************************************)
EXTENDS Integers, Sequences, FiniteSets

(***************************************************************************)
(* Bounds of the model                                                     *)
(***************************************************************************)
MaxMsgLen == 2

MaxKeywords == 2

MaxSymptoms == 2

MaxDiseases == 2

\* rows of the Disease table in the specification of the matching loop
MaxMatched == 4

\* the clock stops here, and the Disease table changes at most this often
MaxTime == 4197

MaxChanges == 1

\* the calls that run side by side
MaxWorkers == 2

\* the seconds the clock of the rate limiter runs through
MaxTicks == 2

(***************************************************************************)
(* Program constants                                                       *)
(***************************************************************************)
MAX_MESSAGE_LENGTH == 5000

MIN_MESSAGE_LENGTH == 1

TOP_RESULTS == 3

\* cache timeouts, in seconds
SYMPTOMS_CACHE_TIMEOUT == 3600

EMERGENCY_KEYWORDS_CACHE_TIMEOUT == 3600

DISEASE_CACHE_TIMEOUT == 3600

\* the literal of cache.set(cache_key, top_results, 300)
RESULT_CACHE_TIMEOUT == 300

RATE_LIMIT_SECONDS == 1

(***************************************************************************)
(* Strings                                                                 *)
(***************************************************************************)
Chars == {"a", "b", "A", " "}

LowerChar(c) == IF c = "A" THEN "a" ELSE IF c = "B" THEN "b" ELSE c

\* str.lower()
Lower(s) == [i \in 1..Len(s) |-> LowerChar(s[i])]

\* Python's `needle in hay` for strings (the empty needle is in every string)
Contains(hay, needle) ==
    \E i \in 0..(Len(hay) - Len(needle)) :
        SubSeq(hay, i + 1, i + Len(needle)) = needle

RECURSIVE LStrip(_)
LStrip(s) == IF s /= <<>> /\ Head(s) = " " THEN LStrip(Tail(s)) ELSE s

RECURSIVE RStrip(_)
RStrip(s) ==
    IF s /= <<>> /\ s[Len(s)] = " " THEN RStrip(SubSeq(s, 1, Len(s) - 1)) ELSE s

\* str.strip()
Strip(s) == RStrip(LStrip(s))

RECURSIVE SplitAcc(_, _, _)
SplitAcc(s, cur, acc) ==
    IF s = <<>> THEN Append(acc, cur)
    ELSE IF Head(s) = "," THEN SplitAcc(Tail(s), <<>>, Append(acc, cur))
    ELSE SplitAcc(Tail(s), Append(cur, Head(s)), acc)

\* str.split(',')
SplitComma(s) == SplitAcc(s, <<>>, <<>>)

\* all strings over a character set up to a length
RECURSIVE StringsUpTo(_, _)
StringsUpTo(cs, n) ==
    IF n = 0 THEN {<<>>}
    ELSE LET shorter == StringsUpTo(cs, n - 1)
         IN  shorter \cup {Append(s, c) : s \in shorter, c \in cs}

Range(s) == {s[i] : i \in 1..Len(s)}

\* all sequences without repetition over a set, up to a length
RECURSIVE ListsUpTo(_, _)
ListsUpTo(pool, n) ==
    IF n = 0 THEN {<<>>}
    ELSE LET shorter == ListsUpTo(pool, n - 1)
         IN  shorter \cup
             UNION {{Append(s, x) : x \in {y \in pool : y \notin Range(s)}} :
                        s \in shorter}


(***************************************************************************)
(* Reference data: the rows the tables may hold                            *)
(***************************************************************************)
\* models.Symptom rows (name, alternative_names)
SymptomA == [name |-> <<"a">>, alternative_names |-> <<>>]

SymptomAb == [name |-> <<"A", "b">>, alternative_names |-> <<"b", "b", ",", " ", "a">>]

SymptomBb == [name |-> <<"b", "b">>, alternative_names |-> <<"b", " ", ",", "A">>]

SymptomPool == {SymptomA, SymptomAb, SymptomBb}

\* a name column holding NULL: the attribute is None, which has no .lower()
NoneName == <<"None">>

\* a Symptom row whose name is None
SymptomNone == [name |-> NoneName, alternative_names |-> <<"a">>]

\* a Symptom row whose alternative_names holds only separators
SymptomCommas == [name |-> <<"b">>, alternative_names |-> <<",", " ", ",">>]

BadSymptomPool == {SymptomNone, SymptomCommas}

\* models.EmergencyKeyword rows (keyword, severity, response_message)
KeywordA == [keyword |-> <<"a">>, severity |-> "CAUTION", response_message |-> "msg_a"]

KeywordB == [keyword |-> <<"b">>, severity |-> "CRITICAL", response_message |-> "msg_b"]

KeywordAb ==
    [keyword |-> <<"A", "b">>, severity |-> "CAUTION", response_message |-> "msg_Ab"]

KeywordHigh == [keyword |-> <<"A">>, severity |-> "HIGH", response_message |-> "msg_A"]

KeywordBa ==
    [keyword |-> <<"b", "a">>, severity |-> "URGENT", response_message |-> "msg_ba"]

KeywordPool == {KeywordA, KeywordB, KeywordAb, KeywordHigh, KeywordBa}

\* models.FirstAidProcedure rows (steps, warning_notes, when_to_seek_help)
Proc1 == [steps |-> "steps1", warning_notes |-> "warn1", when_to_seek_help |-> "when1"]

Proc2 == [steps |-> "steps2", warning_notes |-> "", when_to_seek_help |-> "when2"]

\* models.Disease rows (name, common_symptoms) with their procedures
DiseaseA ==
    [name |-> <<"A">>, common_symptoms |-> <<"b", "b">>,
     first_aid_procedures |-> <<Proc1, Proc2>>]

DiseaseB ==
    [name |-> <<"b", "b">>, common_symptoms |-> <<"b">>, first_aid_procedures |-> <<Proc2>>]

DiseaseAb ==
    [name |-> <<"a", "b">>, common_symptoms |-> <<"A", ",", "b">>,
     first_aid_procedures |-> <<>>]

DiseasePool == {DiseaseA, DiseaseB, DiseaseAb}

\* a Disease row whose name is None
DiseaseNone ==
    [name |-> NoneName, common_symptoms |-> <<"a">>, first_aid_procedures |-> <<Proc1>>]

DiseaseBa ==
    [name |-> <<"b", "a">>, common_symptoms |-> <<"a", " ", "b">>,
     first_aid_procedures |-> <<Proc1>>]

DiseaseAa ==
    [name |-> <<"A", "a">>, common_symptoms |-> <<"a", "b", ",", "b", "b">>,
     first_aid_procedures |-> <<Proc2, Proc1>>]

\* self.symptom_variations: canonical tag -> phrase variants, in dict order
SymptomVariations ==
    << [symptom |-> <<"a">>, variations |-> << <<"a">>, <<"b", "b">> >>],
       [symptom |-> <<"a", "b">>, variations |-> << <<"b", "a">>, <<"a", " ", "b">> >>] >>

(***************************************************************************)
(* The Django cache: an entry is absent (cache.get gives None) or present  *)
(***************************************************************************)
NoEntry == [present |-> FALSE, value |-> <<>>]

Entry(v) == [present |-> TRUE, value |-> v]

(***************************************************************************)
(* nlp_processor.py                                                        *)
(***************************************************************************)
\* _get_all_symptoms that caches the rows it fetched and returns an empty list
GetAllSymptomsColdEmpty(cache, up, table) ==
    IF cache.present THEN [raised |-> FALSE, value |-> cache.value, cache |-> cache]
    ELSE IF up THEN [raised |-> FALSE, value |-> <<>>, cache |-> Entry(table)]
    ELSE [raised |-> TRUE, value |-> <<>>, cache |-> cache]

\* _get_all_symptoms: the cached list, else the table (which may raise),
\* and the cache after the call
GetAllSymptoms(cache, up, table) ==
    IF cache.present THEN [raised |-> FALSE, value |-> cache.value, cache |-> cache]
    ELSE IF up THEN [raised |-> FALSE, value |-> table, cache |-> Entry(table)]
    ELSE [raised |-> TRUE, value |-> <<>>, cache |-> cache]

\* _get_emergency_keywords
GetEmergencyKeywords(cache, up, table) ==
    IF cache.present THEN [raised |-> FALSE, value |-> cache.value, cache |-> cache]
    ELSE IF up THEN [raised |-> FALSE, value |-> table, cache |-> Entry(table)]
    ELSE [raised |-> TRUE, value |-> <<>>, cache |-> cache]

\* the inner loop over symptom.alternative_names.split(','): stop at first hit
RECURSIVE AltMatches(_, _)
AltMatches(alts, text_lower) ==
    IF alts = <<>> THEN FALSE
    ELSE IF Contains(text_lower, Lower(Strip(Head(alts)))) THEN TRUE
    ELSE AltMatches(Tail(alts), text_lower)

\* Method 1 without the `continue` of line 129: the variants are checked
\* after a match of the name as well
RECURSIVE LexiconPassNoContinue(_, _, _)
LexiconPassNoContinue(all_symptoms, text_lower, extracted) ==
    IF all_symptoms = <<>> THEN extracted
    ELSE LET symptom == Head(all_symptoms)
             by_name == IF Contains(text_lower, Lower(symptom.name))
                        THEN Append(extracted, symptom.name) ELSE extracted
         IN  IF symptom.name = NoneName THEN extracted
             ELSE IF symptom.alternative_names /= <<>>
                     /\ AltMatches(SplitComma(symptom.alternative_names), text_lower)
             THEN LexiconPassNoContinue(Tail(all_symptoms), text_lower,
                                        Append(by_name, symptom.name))
             ELSE LexiconPassNoContinue(Tail(all_symptoms), text_lower, by_name)

\* Method 1: the loop over all_symptoms; symptom.name.lower() on a None
\* name raises AttributeError, which the except of line 139 catches after
\* the loop has been left
RECURSIVE LexiconPass(_, _, _)
LexiconPass(all_symptoms, text_lower, extracted) ==
    IF all_symptoms = <<>> THEN extracted
    ELSE LET symptom == Head(all_symptoms)
         IN  IF symptom.name = NoneName THEN extracted
             ELSE IF Contains(text_lower, Lower(symptom.name))
             THEN LexiconPass(Tail(all_symptoms), text_lower,
                              Append(extracted, symptom.name))
             ELSE IF symptom.alternative_names /= <<>>
                     /\ AltMatches(SplitComma(symptom.alternative_names), text_lower)
             THEN LexiconPass(Tail(all_symptoms), text_lower,
                              Append(extracted, symptom.name))
             ELSE LexiconPass(Tail(all_symptoms), text_lower, extracted)

\* the inner loop over variations: `var in text_lower`, stop at first hit
RECURSIVE VariationMatches(_, _)
VariationMatches(variations, text_lower) ==
    IF variations = <<>> THEN FALSE
    ELSE IF Contains(text_lower, Head(variations)) THEN TRUE
    ELSE VariationMatches(Tail(variations), text_lower)

\* Method 2: the loop over self.symptom_variations.items()
RECURSIVE VariationPass(_, _, _)
VariationPass(table, text_lower, extracted) ==
    IF table = <<>> THEN extracted
    ELSE IF VariationMatches(Head(table).variations, text_lower)
    THEN VariationPass(Tail(table), text_lower, Append(extracted, Head(table).symptom))
    ELSE VariationPass(Tail(table), text_lower, extracted)

\* remove duplicates while preserving order
RECURSIVE Unique(_, _, _)
Unique(extracted, seen, unique_extracted) ==
    IF extracted = <<>> THEN unique_extracted
    ELSE IF Head(extracted) \notin seen
    THEN Unique(Tail(extracted), seen \cup {Head(extracted)},
                Append(unique_extracted, Head(extracted)))
    ELSE Unique(Tail(extracted), seen, unique_extracted)

\* extract_symptoms with Method 2 run before Method 1
ExtractSymptomsSynonymsFirst(text, fetch) ==
    LET text_lower == Lower(text)
        method2 == VariationPass(SymptomVariations, text_lower, <<>>)
        method1 == IF fetch.raised THEN method2
                   ELSE LexiconPass(fetch.value, text_lower, method2)
    IN  Unique(method1, {}, <<>>)

\* extract_symptoms with one try block around both methods
ExtractSymptomsAbortOnError(text, fetch) ==
    LET text_lower == Lower(text)
    IN  IF fetch.raised THEN <<>>
        ELSE Unique(VariationPass(SymptomVariations, text_lower,
                                  LexiconPass(fetch.value, text_lower, <<>>)),
                    {}, <<>>)

\* extract_symptoms(text), given the outcome of _get_all_symptoms
ExtractSymptoms(text, fetch) ==
    LET text_lower == Lower(text)
        method1 == IF fetch.raised THEN <<>>
                   ELSE LexiconPass(fetch.value, text_lower, <<>>)
        method2 == VariationPass(SymptomVariations, text_lower, method1)
    IN  Unique(method2, {}, <<>>)

\* the loop with a `break` after the first match
RECURSIVE KeywordPassFirstHit(_, _, _)
KeywordPassFirstHit(keywords, text_lower, emergencies) ==
    IF keywords = <<>> THEN emergencies
    ELSE LET keyword == Head(keywords)
         IN  IF Contains(text_lower, Lower(keyword.keyword))
             THEN Append(emergencies,
                         [keyword |-> keyword.keyword,
                          severity |-> keyword.severity,
                          message |-> keyword.response_message])
             ELSE KeywordPassFirstHit(Tail(keywords), text_lower, emergencies)

\* the loop of detect_emergency over keywords
RECURSIVE KeywordPass(_, _, _)
KeywordPass(keywords, text_lower, emergencies) ==
    IF keywords = <<>> THEN emergencies
    ELSE LET keyword == Head(keywords)
         IN  IF Contains(text_lower, Lower(keyword.keyword))
             THEN KeywordPass(Tail(keywords), text_lower,
                      Append(emergencies,
                             [keyword |-> keyword.keyword,
                              severity |-> keyword.severity,
                              message |-> keyword.response_message]))
             ELSE KeywordPass(Tail(keywords), text_lower, emergencies)

\* detect_emergency answering a failed fetch with an alarm of its own
DetectEmergencyFailAlarm(text, fetch) ==
    IF fetch.raised
    THEN <<[keyword |-> <<>>, severity |-> "CRITICAL", message |-> "unavailable"]>>
    ELSE KeywordPass(fetch.value, Lower(text), <<>>)

\* detect_emergency(text), given the outcome of _get_emergency_keywords
DetectEmergency(text, fetch) ==
    IF fetch.raised THEN <<>>
    ELSE KeywordPass(fetch.value, Lower(text), <<>>)

(***************************************************************************)
(* rag_retriever.py                                                        *)
(***************************************************************************)
\* the element built with prefetched_first_aid[-1]
DiseaseDataLastProcedure(disease) ==
    [name |-> disease.name,
     search_text |-> Lower(disease.name) \o <<" ">> \o Lower(disease.common_symptoms),
     first_aid |-> IF disease.first_aid_procedures /= <<>>
                   THEN <<disease.first_aid_procedures[Len(disease.first_aid_procedures)]>>
                   ELSE <<>>]

\* one element of diseases_data: name, lowercased search text, first
\* prefetched procedure (<<>> stands for None)
DiseaseData(disease) ==
    [name |-> disease.name,
     search_text |-> Lower(disease.name) \o <<" ">> \o Lower(disease.common_symptoms),
     first_aid |-> IF disease.first_aid_procedures /= <<>>
                   THEN <<disease.first_aid_procedures[1]>>
                   ELSE <<>>]

\* the lookup handed to Prefetch, and the reverse accessor that
\* FirstAidProcedure.disease declares on Disease (related_name)
PrefetchLookup == "firstaidprocedure_set"

ReverseAccessor == "first_aid_procedures"

\* iterating the queryset runs the prefetch on the fetched rows; a lookup
\* that is no attribute of Disease raises AttributeError; without rows
\* the prefetch is not attempted
PrefetchRaises(table) == table /= <<>> /\ PrefetchLookup /= ReverseAccessor

\* disease.name.lower() at line 46 raises AttributeError on a None name; the
\* loop of lines 43-54 has no handler of its own
NameRaises(table) == \E i \in 1..Len(table) : table[i].name = NoneName

\* _get_diseases_with_text
GetDiseasesWithText(cache, up, table) ==
    IF cache.present THEN [raised |-> FALSE, value |-> cache.value, cache |-> cache]
    ELSE IF up /\ ~PrefetchRaises(table) /\ ~NameRaises(table)
    THEN LET diseases_data == [i \in 1..Len(table) |-> DiseaseData(table[i])]
         IN  [raised |-> FALSE, value |-> diseases_data, cache |-> Entry(diseases_data)]
    ELSE [raised |-> TRUE, value |-> <<>>, cache |-> cache]

\* the normalisation without .strip()
NormaliseSymptomsNoStrip(extracted_symptoms) ==
    {Lower(symptom) : symptom \in {x \in Range(extracted_symptoms) : x /= <<>>}}

\* the normalisation without .lower()
NormaliseSymptomsKeepCase(extracted_symptoms) ==
    {Strip(symptom) : symptom \in {x \in Range(extracted_symptoms) : x /= <<>>}}

\* {symptom.lower().strip() for symptom in extracted_symptoms if symptom}
NormaliseSymptoms(extracted_symptoms) ==
    {Strip(Lower(symptom)) : symptom \in {x \in Range(extracted_symptoms) : x /= <<>>}}

\* _match_disease: the number of symptoms found in the search text
MatchDisease(disease, extracted_symptoms) ==
    Cardinality({symptom \in extracted_symptoms :
                    Contains(disease.search_text, symptom)})

\* confidence a/b against c/d, as fractions
ConfidenceLess(x, y) == x.num * y.den < y.num * x.den

\* the loop without the test `match_count > 0`
RECURSIVE ScoreDiseasesKeepZero(_, _, _)
ScoreDiseasesKeepZero(diseases_data, extracted_symptoms, results) ==
    IF diseases_data = <<>> THEN results
    ELSE LET disease == Head(diseases_data)
             match_count == MatchDisease(disease, extracted_symptoms)
         IN  IF disease.first_aid /= <<>>
             THEN ScoreDiseasesKeepZero(Tail(diseases_data), extracted_symptoms,
                      Append(results,
                             [disease |-> disease.name,
                              confidence |-> [num |-> match_count,
                                              den |-> Cardinality(extracted_symptoms)],
                              first_aid |-> disease.first_aid[1]]))
             ELSE ScoreDiseasesKeepZero(Tail(diseases_data), extracted_symptoms, results)

\* the loop over diseases_data that builds results
RECURSIVE ScoreDiseases(_, _, _)
ScoreDiseases(diseases_data, extracted_symptoms, results) ==
    IF diseases_data = <<>> THEN results
    ELSE LET disease == Head(diseases_data)
             match_count == MatchDisease(disease, extracted_symptoms)
         IN  IF match_count > 0 /\ disease.first_aid /= <<>>
             THEN ScoreDiseases(Tail(diseases_data), extracted_symptoms,
                      Append(results,
                             [disease |-> disease.name,
                              confidence |-> [num |-> match_count,
                                              den |-> Cardinality(extracted_symptoms)],
                              first_aid |-> disease.first_aid[1]]))
             ELSE ScoreDiseases(Tail(diseases_data), extracted_symptoms, results)

\* list.sort(key=confidence, reverse=True): stable, descending
RECURSIVE InsertByConfidence(_, _)
InsertByConfidence(sorted, x) ==
    IF sorted = <<>> THEN <<x>>
    ELSE IF ConfidenceLess(Head(sorted).confidence, x.confidence)
    THEN <<x>> \o sorted
    ELSE <<Head(sorted)>> \o InsertByConfidence(Tail(sorted), x)

RECURSIVE SortByConfidence(_, _)
SortByConfidence(results, sorted) ==
    IF results = <<>> THEN sorted
    ELSE SortByConfidence(Tail(results), InsertByConfidence(sorted, Head(results)))

\* results[:3]
TopResults(results) ==
    SubSeq(results, 1, IF Len(results) < TOP_RESULTS THEN Len(results) ELSE TOP_RESULTS)

\* cache.set(cache_key, top_results, 300) on the per-symptom-set entries
CacheSetResult(cache, key, value) ==
    [k \in DOMAIN cache \cup {key} |-> IF k = key THEN value ELSE cache[k]]

\* lines 108-144: score every disease, sort by confidence, keep the top 3
RankedMatches(diseases_data, extracted_symptoms) ==
    TopResults(SortByConfidence(ScoreDiseases(diseases_data, extracted_symptoms, <<>>),
                                <<>>))

\* retrieve_relevant_first_aid whose except branch answers with a generic
\* entry instead of []
RetrieveRelevantFirstAidAdviceOnFailure(user_input, extracted_symptoms, results_cache, diseases_cache, up, table) ==
    LET unchanged == [value |-> <<>>, results_cache |-> results_cache,
                      diseases_cache |-> diseases_cache,
                      raised |-> FALSE, cached |-> FALSE]
        normalised == NormaliseSymptoms(extracted_symptoms)
    IN  IF extracted_symptoms = <<>> \/ normalised = {} THEN unchanged
        ELSE IF normalised \in DOMAIN results_cache
        THEN [unchanged EXCEPT !.value = results_cache[normalised], !.cached = TRUE]
        ELSE LET fetch == GetDiseasesWithText(diseases_cache, up, table)
             IN  IF fetch.raised
                 THEN [unchanged EXCEPT !.raised = TRUE,
                           !.value = <<[disease |-> <<"a">>,
                                        confidence |-> [num |-> 0, den |-> 1],
                                        first_aid |-> Proc1]>>]
                 ELSE LET top_results == RankedMatches(fetch.value, normalised)
                      IN  [value |-> top_results,
                           results_cache |->
                               CacheSetResult(results_cache, normalised, top_results),
                           diseases_cache |-> fetch.cache,
                           raised |-> FALSE, cached |-> FALSE]

\* retrieve_relevant_first_aid(user_input, extracted_symptoms): the value
\* returned, the two caches after the call, whether the condition fetch
\* raised and whether the result cache answered
RetrieveRelevantFirstAid(user_input, extracted_symptoms, results_cache, diseases_cache, up, table) ==
    LET unchanged == [value |-> <<>>, results_cache |-> results_cache,
                      diseases_cache |-> diseases_cache,
                      raised |-> FALSE, cached |-> FALSE]
        normalised == NormaliseSymptoms(extracted_symptoms)
    IN  IF extracted_symptoms = <<>> \/ normalised = {} THEN unchanged
        ELSE IF normalised \in DOMAIN results_cache
        THEN [unchanged EXCEPT !.value = results_cache[normalised], !.cached = TRUE]
        ELSE LET fetch == GetDiseasesWithText(diseases_cache, up, table)
             IN  IF fetch.raised THEN [unchanged EXCEPT !.raised = TRUE]
                 ELSE LET top_results == RankedMatches(fetch.value, normalised)
                      IN  [value |-> top_results,
                           results_cache |->
                               CacheSetResult(results_cache, normalised, top_results),
                           diseases_cache |-> fetch.cache,
                           raised |-> FALSE, cached |-> FALSE]

(***************************************************************************)
(* views.py: helpers                                                       *)
(***************************************************************************)
\* the lookup with a default above every level (SEVERITY_LEVELS.get(severity, 4))
SeverityRankUnknownHighest(severity) ==
    CASE severity = "CRITICAL" -> 3
      [] severity = "URGENT" -> 2
      [] severity = "CAUTION" -> 1
      [] OTHER -> 4

\* SEVERITY_LEVELS.get(severity, 0)
SeverityRank(severity) ==
    CASE severity = "CRITICAL" -> 3
      [] severity = "URGENT" -> 2
      [] severity = "CAUTION" -> 1
      [] OTHER -> 0

\* the sort with equal ranks reordered (the later entry moves to the front)
RECURSIVE InsertBySeverityUnstable(_, _)
InsertBySeverityUnstable(sorted, x) ==
    IF sorted = <<>> THEN <<x>>
    ELSE IF SeverityRank(Head(sorted).severity) <= SeverityRank(x.severity)
    THEN <<x>> \o sorted
    ELSE <<Head(sorted)>> \o InsertBySeverityUnstable(Tail(sorted), x)

\* emergencies.sort(key=rank, reverse=True): stable, descending
RECURSIVE InsertBySeverity(_, _)
InsertBySeverity(sorted, x) ==
    IF sorted = <<>> THEN <<x>>
    ELSE IF SeverityRank(Head(sorted).severity) < SeverityRank(x.severity)
    THEN <<x>> \o sorted
    ELSE <<Head(sorted)>> \o InsertBySeverity(Tail(sorted), x)

RECURSIVE SortBySeverity(_, _)
SortBySeverity(emergencies, sorted) ==
    IF emergencies = <<>> THEN sorted
    ELSE SortBySeverity(Tail(emergencies), InsertBySeverity(sorted, Head(emergencies)))

\* the test written `confidence <= CONFIDENCE_LOW_THRESHOLD`
BelowLowThresholdInclusive(confidence) == 2 * confidence.num <= confidence.den

\* confidence < CONFIDENCE_LOW_THRESHOLD (0.5), on the fraction num/den
BelowLowThreshold(confidence) == 2 * confidence.num < confidence.den

\* format_medical_response: the parts of the text, in order
FormatMedicalResponse(disease, first_aid, confidence) ==
    [headline |-> disease,
     steps |-> first_aid.steps,
     warning |-> IF first_aid.warning_notes /= "" THEN <<first_aid.warning_notes>>
                 ELSE <<>>,
     when_to_seek_help |-> first_aid.when_to_seek_help,
     disclaimer |-> BelowLowThreshold(confidence)]

\* line 371, `if emergencies:`: the branch taken after Step 2
EmergencyBranchIgnored(found) == "rag"

AfterDetection(found) == IF found /= <<>> THEN "emergency" ELSE "rag"

\* line 362: Step 2 follows Step 1
DetectionSkipped == "rag"

AfterNlp == "detect"

\* validate_message
ValidateMessage(message) ==
    IF message = <<>> \/ Strip(message) = <<>>
    THEN [ok |-> FALSE, error |-> "Message cannot be empty"]
    ELSE IF Len(message) < MIN_MESSAGE_LENGTH
    THEN [ok |-> FALSE, error |-> "Message must be at least"]
    ELSE IF Len(message) > MAX_MESSAGE_LENGTH
    THEN [ok |-> FALSE, error |-> "Message must not exceed"]
    ELSE [ok |-> TRUE, error |-> ""]

\* the JSON bodies process_message returns
NoResponse ==
    [type |-> "none", status |-> 0, kind |-> "none", severity |-> "", message |-> "",
     emergencies |-> <<>>, emergency_id |-> "absent", symptoms_detected |-> <<>>,
     formatted |-> <<>>, listed |-> <<>>]

ErrorResponse(status, message) ==
    [NoResponse EXCEPT !.type = "error", !.kind = "error",
                       !.status = status, !.message = message]

EmergencyResponse(sorted, logged) ==
    [NoResponse EXCEPT !.type = "emergency", !.kind = "emergency", !.status = 200,
                       !.severity = sorted[1].severity,
                       !.message = sorted[1].message,
                       !.emergencies = sorted,
                       !.emergency_id = IF logged THEN "id" ELSE "null"]

\* Step 4 with the test of line 463 inverted (`if not symptoms:`)
NormalResponseFallbacksSwapped(syms, results) ==
    IF results /= <<>>
    THEN [NoResponse EXCEPT !.type = "normal", !.kind = "matched", !.status = 200,
              !.symptoms_detected = syms,
              !.formatted = <<FormatMedicalResponse(results[1].disease,
                                                    results[1].first_aid,
                                                    results[1].confidence)>>]
    ELSE IF syms = <<>>
    THEN [NoResponse EXCEPT !.type = "normal", !.kind = "no_match", !.status = 200,
              !.symptoms_detected = syms, !.listed = syms]
    ELSE [NoResponse EXCEPT !.type = "normal", !.kind = "no_symptoms", !.status = 200,
              !.symptoms_detected = syms]

\* Step 4 with first_aid_results[0] read without the test for emptiness:
\* the IndexError reaches the handler of line 511
NormalResponseUnguarded(syms, results) ==
    IF results /= <<>>
    THEN [NoResponse EXCEPT !.type = "normal", !.kind = "matched", !.status = 200,
              !.symptoms_detected = syms,
              !.formatted = <<FormatMedicalResponse(results[1].disease,
                                                    results[1].first_aid,
                                                    results[1].confidence)>>]
    ELSE ErrorResponse(500, "An error occurred")

\* Step 4 of process_message: the text of the normal response
NormalResponse(syms, results) ==
    IF results /= <<>>
    THEN [NoResponse EXCEPT !.type = "normal", !.kind = "matched", !.status = 200,
              !.symptoms_detected = syms,
              !.formatted = <<FormatMedicalResponse(results[1].disease,
                                                    results[1].first_aid,
                                                    results[1].confidence)>>]
    ELSE IF syms /= <<>>
    THEN [NoResponse EXCEPT !.type = "normal", !.kind = "no_match", !.status = 200,
              !.symptoms_detected = syms, !.listed = syms]
    ELSE [NoResponse EXCEPT !.type = "normal", !.kind = "no_symptoms", !.status = 200,
              !.symptoms_detected = syms]

(***************************************************************************)
(* State                                                                   *)
(***************************************************************************)
VARIABLES
    symptomTable,       \* Symptom.objects.all(), in table order
    keywordTable,       \* EmergencyKeyword.objects.all(), in table order
    diseaseTable,       \* Disease.objects.all(), in table order
    dbFaulty,           \* whether writes to the database may raise
    symptomCache,       \* cache entry "medical_nlp_all_symptoms"
    keywordCache,       \* cache entry "medical_nlp_emergency_keywords"
    diseaseCache,       \* cache entry "rag_diseases_text"
    resultCache,        \* cache entries "rag_result_<md5 of sorted symptoms>"
    rateCache,          \* cache entry "msg_rate_<session>" is set
    pc,                 \* position of the request in process_message
    user_message,       \* data['message'].strip()
    admitted,           \* the message passed validate_message and check_rate_limit
    symptoms,           \* local symptoms
    emergencies,        \* local emergencies
    first_aid_results,  \* local first_aid_results
    matched_diseases,   \* local matched_diseases
    calls,              \* the core operations invoked for this message, in order
    raised,             \* the reference-data fetches that raised for this message
    outage,             \* the fetches that raised because the store was down
    chat_messages,      \* ChatMessage rows written for this message
    emergency_logs,     \* EmergencyLog rows written for this message
    symptom_logs,       \* SymptomLog rows written for this message
    response,           \* the JsonResponse returned
    now,                \* time.time(), in seconds
    expires,            \* the time at which each cache entry times out
    changes,            \* the times at which the Disease table was changed
    provenance,         \* which state of the Disease table the cached corpus, the
                        \* cached results and the result of this message come from
    previous,           \* the message answered before this one, and its outputs
    workers             \* the calls running side by side on the shared cache

tables == <<symptomTable, keywordTable, diseaseTable, dbFaulty>>

caches == <<symptomCache, keywordCache, diseaseCache, resultCache, rateCache>>

locals == <<user_message, admitted, symptoms, emergencies, first_aid_results,
            matched_diseases, calls, raised, outage>>

rows == <<chat_messages, emergency_logs, symptom_logs>>

record == <<changes, provenance, previous, workers>>

vars == <<tables, caches, pc, locals, rows, response, now, expires, record>>

\* no entry has a timeout
NoExpiry == [symptoms |-> 0, keywords |-> 0, diseases |-> 0, rate |-> 0, results |-> <<>>]

\* nothing cached and nothing served; versions count the changes of the
\* Disease table, -1 stands for a result that was computed from no data
NoProvenance == [corpus |-> 0, results |-> <<>>, served |-> -1, hit |-> FALSE]

NoPrevious ==
    [recorded |-> FALSE, message |-> <<>>, extracted |-> FALSE, symptoms |-> <<>>,
     retrieved |-> FALSE, results |-> <<>>, outage |-> {}]

NoWorkers == <<>>

\* the expiry of a result entry written at time t (cache.set(..., 300))
ResultExpiryAsCorpus(t) == t + DISEASE_CACHE_TIMEOUT

ResultExpiry(t) == t + RESULT_CACHE_TIMEOUT

RawMessages == StringsUpTo(Chars, MaxMsgLen)

KeywordTables == ListsUpTo(KeywordPool, MaxKeywords)

SymptomTables == ListsUpTo(SymptomPool, MaxSymptoms)

DiseaseTables == ListsUpTo(DiseasePool, MaxDiseases)

\* whether a database write succeeds
WriteOutcomes == IF dbFaulty THEN BOOLEAN ELSE {TRUE}

\* the state of a worker with no request in hand
Idle ==
    /\ pc = "idle"
    /\ user_message = <<>>
    /\ admitted = FALSE
    /\ symptoms = <<>>
    /\ emergencies = <<>>
    /\ first_aid_results = <<>>
    /\ matched_diseases = <<>>
    /\ calls = <<>>
    /\ raised = {}
    /\ outage = {}
    /\ chat_messages = <<>>
    /\ emergency_logs = <<>>
    /\ symptom_logs = <<>>
    /\ response = NoResponse

ColdCaches ==
    /\ symptomCache = NoEntry
    /\ keywordCache = NoEntry
    /\ diseaseCache = NoEntry
    /\ resultCache = <<>>
    /\ rateCache = FALSE
    /\ expires = NoExpiry

\* the clock at zero, no change made, nothing recorded
AtStart ==
    /\ now = 0
    /\ changes = <<>>
    /\ provenance = NoProvenance
    /\ previous = NoPrevious
    /\ workers = NoWorkers

\* the seeded tables: one table varies over all its contents while the other
\* two hold a fixed content
SeedSymptoms == <<SymptomAb>>

SeedKeywords == <<KeywordAb, KeywordBa>>

SeedDiseases == <<DiseaseB, DiseaseA>>

Worlds ==
    {<<s, SeedKeywords, SeedDiseases>> : s \in SymptomTables} \cup
    {<<SeedSymptoms, k, SeedDiseases>> : k \in KeywordTables} \cup
    {<<SeedSymptoms, SeedKeywords, d>> : d \in DiseaseTables}

Init ==
    /\ \E world \in Worlds :
         /\ symptomTable = world[1]
         /\ keywordTable = world[2]
         /\ diseaseTable = world[3]
    /\ dbFaulty = FALSE
    /\ ColdCaches
    /\ Idle
    /\ AtStart

(***************************************************************************)
(* views.py: process_message, one action per step                          *)
(***************************************************************************)
\* the request with the user's ChatMessage saved before check_rate_limit
ReceiveMessageStoresFirst ==
    /\ pc = "idle"
    /\ \E raw \in RawMessages, stored \in WriteOutcomes :
         LET message == Strip(raw)
             valid == ValidateMessage(message)
         IN  /\ user_message' = message
             /\ IF ~valid.ok
                THEN /\ response' = ErrorResponse(400, valid.error)
                     /\ pc' = "done"
                     /\ UNCHANGED <<rateCache, admitted, chat_messages>>
                ELSE IF rateCache
                THEN /\ response' = ErrorResponse(429, "Too many requests")
                     /\ pc' = "done"
                     /\ chat_messages' =
                            <<[role |-> "user", emergency_detected |-> FALSE]>>
                     /\ UNCHANGED <<rateCache, admitted>>
                ELSE /\ rateCache' = TRUE
                     /\ admitted' = TRUE
                     /\ IF stored
                        THEN /\ chat_messages' =
                                    <<[role |-> "user", emergency_detected |-> FALSE]>>
                             /\ pc' = "nlp"
                             /\ UNCHANGED response
                        ELSE /\ response' = ErrorResponse(500, "An error occurred")
                             /\ pc' = "done"
                             /\ UNCHANGED chat_messages
    /\ UNCHANGED <<tables, symptomCache, keywordCache, diseaseCache, resultCache,
                   symptoms, emergencies, first_aid_results, matched_diseases,
                   calls, raised, outage, emergency_logs, symptom_logs>>
    /\ expires' = IF rateCache' /= rateCache
                  THEN [expires EXCEPT !.rate = now + RATE_LIMIT_SECONDS]
                  ELSE expires
    /\ UNCHANGED <<now, record>>

\* lines 300-348: parse, validate_message, check_rate_limit, profile,
\* session and the user's ChatMessage
ReceiveMessage ==
    /\ pc = "idle"
    /\ \E raw \in RawMessages, stored \in WriteOutcomes :
         LET message == Strip(raw)
             valid == ValidateMessage(message)
         IN  /\ user_message' = message
             /\ IF ~valid.ok
                THEN /\ response' = ErrorResponse(400, valid.error)
                     /\ pc' = "done"
                     /\ UNCHANGED <<rateCache, admitted, chat_messages>>
                ELSE IF rateCache
                THEN /\ response' = ErrorResponse(429, "Too many requests")
                     /\ pc' = "done"
                     /\ UNCHANGED <<rateCache, admitted, chat_messages>>
                ELSE /\ rateCache' = TRUE
                     /\ admitted' = TRUE
                     /\ IF stored
                        THEN /\ chat_messages' =
                                    <<[role |-> "user", emergency_detected |-> FALSE]>>
                             /\ pc' = "nlp"
                             /\ UNCHANGED response
                        ELSE /\ response' = ErrorResponse(500, "An error occurred")
                             /\ pc' = "done"
                             /\ UNCHANGED chat_messages
    /\ UNCHANGED <<tables, symptomCache, keywordCache, diseaseCache, resultCache,
                   symptoms, emergencies, first_aid_results, matched_diseases,
                   calls, raised, outage, emergency_logs, symptom_logs>>
    /\ expires' = IF rateCache' /= rateCache
                  THEN [expires EXCEPT !.rate = now + RATE_LIMIT_SECONDS]
                  ELSE expires
    /\ UNCHANGED <<now, record>>

\* lines 350-360: Step 1, extract_symptoms
NlpProcessing ==
    /\ pc = "nlp"
    /\ \E up \in BOOLEAN :
         LET fetch == GetAllSymptoms(symptomCache, up, symptomTable)
         IN  /\ symptoms' = ExtractSymptoms(user_message, fetch)
             /\ symptomCache' = fetch.cache
             /\ raised' = IF fetch.raised THEN raised \cup {"symptoms"} ELSE raised
             /\ outage' = IF fetch.raised /\ ~up THEN outage \cup {"symptoms"} ELSE outage
    /\ calls' = Append(calls, "extract_symptoms")
    /\ pc' = AfterNlp
    /\ UNCHANGED <<tables, keywordCache, diseaseCache, resultCache, rateCache,
                   user_message, admitted, emergencies, first_aid_results,
                   matched_diseases, rows, response>>
    /\ expires' = IF symptomCache' /= symptomCache
                  THEN [expires EXCEPT !.symptoms = now + SYMPTOMS_CACHE_TIMEOUT]
                  ELSE expires
    /\ UNCHANGED <<now, record>>

\* lines 362-371: Step 2, detect_emergency
EmergencyDetection ==
    /\ pc = "detect"
    /\ \E up \in BOOLEAN :
         LET fetch == GetEmergencyKeywords(keywordCache, up, keywordTable)
             found == DetectEmergency(user_message, fetch)
         IN  /\ emergencies' = found
             /\ keywordCache' = fetch.cache
             /\ raised' = IF fetch.raised THEN raised \cup {"keywords"} ELSE raised
             /\ outage' = IF fetch.raised /\ ~up THEN outage \cup {"keywords"} ELSE outage
             /\ pc' = AfterDetection(found)
    /\ calls' = Append(calls, "detect_emergency")
    /\ UNCHANGED <<tables, symptomCache, diseaseCache, resultCache, rateCache,
                   user_message, admitted, symptoms, first_aid_results,
                   matched_diseases, rows, response>>
    /\ expires' = IF keywordCache' /= keywordCache
                  THEN [expires EXCEPT !.keywords = now + EMERGENCY_KEYWORDS_CACHE_TIMEOUT]
                  ELSE expires
    /\ UNCHANGED <<now, record>>

\* lines 371-404: the emergency branch
EmergencyExit ==
    /\ pc = "emergency"
    /\ \E logged \in WriteOutcomes, saved \in WriteOutcomes :
         LET sorted == SortBySeverity(emergencies, <<>>)
         IN  /\ emergencies' = sorted
             /\ emergency_logs' =
                    IF logged
                    THEN <<[emergency_keywords |->
                                [i \in 1..Len(sorted) |-> sorted[i].keyword],
                            severity |-> sorted[1].severity]>>
                    ELSE <<>>
             /\ IF saved
                THEN /\ chat_messages' =
                            [chat_messages EXCEPT ![1].emergency_detected = TRUE]
                     /\ response' = EmergencyResponse(sorted, logged)
                ELSE /\ response' = ErrorResponse(500, "An error occurred")
                     /\ UNCHANGED chat_messages
    /\ pc' = "done"
    /\ UNCHANGED <<tables, caches, user_message, admitted, symptoms,
                   first_aid_results, matched_diseases, calls, raised, outage,
                   symptom_logs>>
    /\ UNCHANGED <<now, expires, record>>

\* Step 3 without the test of line 411 (`if symptoms:`)
RagRetrievalUnconditional ==
    /\ pc = "rag"
    /\ IF TRUE
       THEN \E up \in BOOLEAN, logged \in WriteOutcomes :
              LET got == RetrieveRelevantFirstAid(user_message, symptoms, resultCache,
                                                  diseaseCache, up, diseaseTable)
                  matched == [i \in 1..Len(got.value) |->
                                 [name |-> got.value[i].disease,
                                  confidence |-> got.value[i].confidence]]
                  key == NormaliseSymptoms(symptoms)
                  fetched == got.diseases_cache /= diseaseCache
                  stored == got.results_cache /= resultCache
                  corpus == IF fetched THEN Len(changes) ELSE provenance.corpus
                  served == IF got.cached THEN provenance.results[key]
                            ELSE IF stored THEN corpus
                            ELSE -1
              IN  /\ first_aid_results' = got.value
                  /\ matched_diseases' = matched
                  /\ resultCache' = got.results_cache
                  /\ diseaseCache' = got.diseases_cache
                  /\ expires' =
                         [expires EXCEPT
                             !.diseases = IF fetched THEN now + DISEASE_CACHE_TIMEOUT
                                          ELSE @,
                             !.results = IF stored
                                         THEN CacheSetResult(@, key, ResultExpiry(now))
                                         ELSE @]
                  /\ provenance' =
                         [corpus |-> corpus,
                          results |-> IF stored
                                      THEN CacheSetResult(provenance.results, key, served)
                                      ELSE provenance.results,
                          served |-> served,
                          hit |-> got.cached]
                  /\ raised' = IF got.raised THEN raised \cup {"diseases"} ELSE raised
                  /\ outage' = IF got.raised /\ ~up THEN outage \cup {"diseases"}
                                ELSE outage
                  /\ calls' = Append(calls, "retrieve_relevant_first_aid")
                  /\ symptom_logs' =
                         IF logged
                         THEN <<[symptoms |-> symptoms, matched_diseases |-> matched]>>
                         ELSE <<>>
       ELSE UNCHANGED <<first_aid_results, matched_diseases, resultCache,
                        diseaseCache, expires, provenance, raised, outage, calls,
                        symptom_logs>>
    /\ pc' = "respond"
    /\ UNCHANGED <<tables, symptomCache, keywordCache, rateCache, user_message,
                   admitted, symptoms, emergencies, chat_messages, emergency_logs,
                   response, now, changes, previous, workers>>

\* lines 406-449: Step 3, retrieve_relevant_first_aid and the SymptomLog
RagRetrieval ==
    /\ pc = "rag"
    /\ IF symptoms /= <<>>
       THEN \E up \in BOOLEAN, logged \in WriteOutcomes :
              LET got == RetrieveRelevantFirstAid(user_message, symptoms, resultCache,
                                                  diseaseCache, up, diseaseTable)
                  matched == [i \in 1..Len(got.value) |->
                                 [name |-> got.value[i].disease,
                                  confidence |-> got.value[i].confidence]]
                  key == NormaliseSymptoms(symptoms)
                  fetched == got.diseases_cache /= diseaseCache
                  stored == got.results_cache /= resultCache
                  corpus == IF fetched THEN Len(changes) ELSE provenance.corpus
                  served == IF got.cached THEN provenance.results[key]
                            ELSE IF stored THEN corpus
                            ELSE -1
              IN  /\ first_aid_results' = got.value
                  /\ matched_diseases' = matched
                  /\ resultCache' = got.results_cache
                  /\ diseaseCache' = got.diseases_cache
                  /\ expires' =
                         [expires EXCEPT
                             !.diseases = IF fetched THEN now + DISEASE_CACHE_TIMEOUT
                                          ELSE @,
                             !.results = IF stored
                                         THEN CacheSetResult(@, key, ResultExpiry(now))
                                         ELSE @]
                  /\ provenance' =
                         [corpus |-> corpus,
                          results |-> IF stored
                                      THEN CacheSetResult(provenance.results, key, served)
                                      ELSE provenance.results,
                          served |-> served,
                          hit |-> got.cached]
                  /\ raised' = IF got.raised THEN raised \cup {"diseases"} ELSE raised
                  /\ outage' = IF got.raised /\ ~up THEN outage \cup {"diseases"}
                                ELSE outage
                  /\ calls' = Append(calls, "retrieve_relevant_first_aid")
                  /\ symptom_logs' =
                         IF logged
                         THEN <<[symptoms |-> symptoms, matched_diseases |-> matched]>>
                         ELSE <<>>
       ELSE UNCHANGED <<first_aid_results, matched_diseases, resultCache,
                        diseaseCache, expires, provenance, raised, outage, calls,
                        symptom_logs>>
    /\ pc' = "respond"
    /\ UNCHANGED <<tables, symptomCache, keywordCache, rateCache, user_message,
                   admitted, symptoms, emergencies, chat_messages, emergency_logs,
                   response, now, changes, previous, workers>>

\* lines 451-497: Step 4, the response text, the bot's ChatMessage, the reply
GenerateResponse ==
    /\ pc = "respond"
    /\ \E stored \in WriteOutcomes :
         chat_messages' =
             IF stored
             THEN Append(chat_messages, [role |-> "bot", emergency_detected |-> FALSE])
             ELSE chat_messages
    /\ response' = NormalResponse(symptoms, first_aid_results)
    /\ calls' = IF first_aid_results /= <<>>
                THEN Append(calls, "format_medical_response")
                ELSE calls
    /\ pc' = "done"
    /\ UNCHANGED <<tables, caches, user_message, admitted, symptoms, emergencies,
                   first_aid_results, matched_diseases, raised, outage, emergency_logs,
                   symptom_logs>>
    /\ UNCHANGED <<now, expires, record>>

\* the reply is sent; the worker takes the next request
Finish ==
    /\ pc = "done"
    /\ pc' = "idle"
    /\ user_message' = <<>>
    /\ admitted' = FALSE
    /\ symptoms' = <<>>
    /\ emergencies' = <<>>
    /\ first_aid_results' = <<>>
    /\ matched_diseases' = <<>>
    /\ calls' = <<>>
    /\ raised' = {}
    /\ outage' = {}
    /\ chat_messages' = <<>>
    /\ emergency_logs' = <<>>
    /\ symptom_logs' = <<>>
    /\ response' = NoResponse
    /\ UNCHANGED <<tables, caches>>
    /\ provenance' = [provenance EXCEPT !.served = -1, !.hit = FALSE]
    /\ UNCHANGED <<now, expires, changes, previous, workers>>

\* the entries the cache holds
CacheEntries ==
    {e \in {<<"symptoms">>} : symptomCache.present} \cup
    {e \in {<<"keywords">>} : keywordCache.present} \cup
    {e \in {<<"diseases">>} : diseaseCache.present} \cup
    {e \in {<<"rate">>} : rateCache} \cup
    {<<"result", k>> : k \in DOMAIN resultCache}

\* a cache entry reaches its timeout, at any point of a request
Expire ==
    /\ \E entry \in CacheEntries :
         /\ symptomCache' = IF entry = <<"symptoms">> THEN NoEntry ELSE symptomCache
         /\ keywordCache' = IF entry = <<"keywords">> THEN NoEntry ELSE keywordCache
         /\ diseaseCache' = IF entry = <<"diseases">> THEN NoEntry ELSE diseaseCache
         /\ rateCache' = IF entry = <<"rate">> THEN FALSE ELSE rateCache
         /\ resultCache' = [k \in {x \in DOMAIN resultCache : <<"result", x>> /= entry}
                               |-> resultCache[k]]
         /\ expires' =
                [symptoms |-> IF entry = <<"symptoms">> THEN 0 ELSE expires.symptoms,
                 keywords |-> IF entry = <<"keywords">> THEN 0 ELSE expires.keywords,
                 diseases |-> IF entry = <<"diseases">> THEN 0 ELSE expires.diseases,
                 rate |-> IF entry = <<"rate">> THEN 0 ELSE expires.rate,
                 results |-> [k \in DOMAIN resultCache' |-> expires.results[k]]]
         /\ provenance' =
                [provenance EXCEPT
                    !.corpus = IF entry = <<"diseases">> THEN 0 ELSE @,
                    !.results = [k \in DOMAIN resultCache' |-> @[k]]]
    /\ UNCHANGED <<tables, pc, locals, rows, response, now, changes, previous, workers>>

Next ==
    \/ ReceiveMessage
    \/ NlpProcessing
    \/ EmergencyDetection
    \/ EmergencyExit
    \/ RagRetrieval
    \/ GenerateResponse
    \/ Finish
    \/ Expire

Spec == Init /\ [][Next]_vars

(***************************************************************************)
(* rag_retriever.py, lines 88-146: the matching of retrieve_relevant_      *)
(* first_aid as a function of diseases_data and the extracted symptoms.    *)
(* In Spec the loop only ever sees an empty diseases_data, because         *)
(* _get_diseases_with_text raises for every table that has a row; here the *)
(* request stands at Step 3 with diseases_data at hand.                    *)
(***************************************************************************)
\* the tags extract_symptoms can return: Symptom names and synonym-table keys
TagPool ==
    {row.name : row \in SymptomPool} \cup
    {SymptomVariations[i].symptom : i \in 1..Len(SymptomVariations)}

\* a tag with surrounding blanks, and lists that repeat a tag
PaddedTag == <<" ", "b", "b", " ">>

\* three tags, so that a condition can cover fewer than half of them
ThreeTags == << <<"a">>, <<"A", "b">>, <<"b", "b">> >>

ExtractedLists ==
    (ListsUpTo(TagPool \cup {PaddedTag}, MaxSymptoms) \ {<<>>}) \cup
    {<<t, t>> : t \in TagPool} \cup {ThreeTags}

\* enough conditions with a procedure for the cut at three to matter
MatcherTables == ListsUpTo(DiseasePool \cup {DiseaseBa, DiseaseAa}, MaxMatched)

MatcherInit ==
    /\ symptomTable = SeedSymptoms
    /\ keywordTable = SeedKeywords
    /\ \E table \in MatcherTables : diseaseTable = table
    /\ dbFaulty = FALSE
    /\ symptomCache = NoEntry
    /\ keywordCache = NoEntry
    /\ diseaseCache = NoEntry
    /\ resultCache = <<>>
    /\ rateCache = TRUE
    /\ pc = "rag"
    /\ user_message = <<"a">>
    /\ admitted = TRUE
    /\ \E extracted \in ExtractedLists : symptoms = extracted
    /\ emergencies = <<>>
    /\ first_aid_results = <<>>
    /\ matched_diseases = <<>>
    /\ calls = <<"extract_symptoms", "detect_emergency">>
    /\ raised = {}
    /\ outage = {}
    /\ chat_messages = <<[role |-> "user", emergency_detected |-> FALSE]>>
    /\ emergency_logs = <<>>
    /\ symptom_logs = <<>>
    /\ response = NoResponse
    /\ expires = [NoExpiry EXCEPT !.rate = RATE_LIMIT_SECONDS]
    /\ AtStart

\* lines 88-146 and views.py 423-449 on the diseases_data of diseaseTable
MatchingLoop ==
    /\ pc = "rag"
    /\ \E logged \in WriteOutcomes :
         LET diseases_data == [i \in 1..Len(diseaseTable) |-> DiseaseData(diseaseTable[i])]
             normalised == NormaliseSymptoms(symptoms)
             top_results == RankedMatches(diseases_data, normalised)
             matched == [i \in 1..Len(top_results) |->
                            [name |-> top_results[i].disease,
                             confidence |-> top_results[i].confidence]]
         IN  /\ first_aid_results' = top_results
             /\ matched_diseases' = matched
             /\ resultCache' = CacheSetResult(resultCache, normalised, top_results)
             /\ diseaseCache' = Entry(diseases_data)
             /\ expires' =
                    [expires EXCEPT
                        !.diseases = now + DISEASE_CACHE_TIMEOUT,
                        !.results = CacheSetResult(@, normalised, ResultExpiry(now))]
             /\ provenance' =
                    [corpus |-> Len(changes),
                     results |-> CacheSetResult(provenance.results, normalised,
                                                Len(changes)),
                     served |-> Len(changes),
                     hit |-> FALSE]
             /\ symptom_logs' =
                    IF logged
                    THEN <<[symptoms |-> symptoms, matched_diseases |-> matched]>>
                    ELSE <<>>
    /\ calls' = Append(calls, "retrieve_relevant_first_aid")
    /\ pc' = "respond"
    /\ UNCHANGED <<tables, symptomCache, keywordCache, rateCache, user_message,
                   admitted, symptoms, emergencies, raised, outage, chat_messages,
                   emergency_logs, response>>
    /\ UNCHANGED <<now, changes, previous, workers>>

MatcherNext ==
    \/ MatchingLoop
    \/ GenerateResponse

MatcherSpec == MatcherInit /\ [][MatcherNext]_vars

(***************************************************************************)
(* The program over reference data that holds one bad record               *)
(***************************************************************************)
\* list with x put in front of its i-th element
InsertAt(list, i, x) == SubSeq(list, 1, i - 1) \o <<x>> \o SubSeq(list, i, Len(list))

\* Symptom.objects.all() with one bad row among well-formed ones
BadSymptomTables ==
    {InsertAt(t[1], t[2], t[3]) :
        t \in {u \in SymptomTables \X (1..(MaxSymptoms + 1)) \X BadSymptomPool :
                  u[2] <= Len(u[1]) + 1}}

\* Disease.objects with one bad row among well-formed ones
BadDiseaseTables ==
    {InsertAt(t[1], t[2], DiseaseNone) :
        t \in {u \in DiseaseTables \X (1..(MaxDiseases + 1)) : u[2] <= Len(u[1]) + 1}}

BadRecordInit ==
    /\ \/ /\ symptomTable \in BadSymptomTables
          /\ diseaseTable = SeedDiseases
       \/ /\ symptomTable = SeedSymptoms
          /\ diseaseTable \in BadDiseaseTables
    /\ keywordTable = SeedKeywords
    /\ dbFaulty = FALSE
    /\ ColdCaches
    /\ Idle
    /\ AtStart

BadRecordSpec == BadRecordInit /\ [][Next]_vars

(***************************************************************************)
(* The retriever with a clock: entries leave the cache when their timeout  *)
(* is reached, and the Disease table is edited between two requests.       *)
(* A request takes no time and is taken up at Step 3, with the tags that   *)
(* Step 1 extracted at hand.                                               *)
(***************************************************************************)
\* the delays between two requests
TimeSteps == {299, 3599}

\* the lists of tags the requests carry into Step 3
TimedTagLists == {<< <<"a">> >>, << <<"b", "b">> >>}

\* Steps 0-2 of a request in which no emergency was detected
ReachStep3 ==
    /\ pc = "idle"
    /\ pc' = "rag"
    /\ admitted' = TRUE
    /\ user_message' = <<"a">>
    /\ \E extracted \in TimedTagLists : symptoms' = extracted
    /\ calls' = <<"extract_symptoms", "detect_emergency">>
    /\ chat_messages' = <<[role |-> "user", emergency_detected |-> FALSE]>>
    /\ UNCHANGED <<tables, caches, emergencies, first_aid_results, matched_diseases,
                   raised, outage, emergency_logs, symptom_logs, response, now,
                   expires, record>>

\* the contents the Disease table goes through
TimedDiseaseTables == {<<>>, <<DiseaseA>>, SeedDiseases}

\* whether an entry set to expire at `expiry` is gone at time t
Expired(expiry, t) == expiry <= t

\* time passes between two requests; the backend drops what has timed out
Advance ==
    /\ pc = "idle"
    /\ \E d \in TimeSteps :
         /\ now + d <= MaxTime
         /\ now' = now + d
    /\ symptomCache' = IF Expired(expires.symptoms, now') THEN NoEntry ELSE symptomCache
    /\ keywordCache' = IF Expired(expires.keywords, now') THEN NoEntry ELSE keywordCache
    /\ diseaseCache' = IF Expired(expires.diseases, now') THEN NoEntry ELSE diseaseCache
    /\ rateCache' = IF Expired(expires.rate, now') THEN FALSE ELSE rateCache
    /\ resultCache' =
           [k \in {x \in DOMAIN resultCache : ~Expired(expires.results[x], now')}
               |-> resultCache[k]]
    /\ expires' =
           [symptoms |-> IF symptomCache'.present THEN expires.symptoms ELSE 0,
            keywords |-> IF keywordCache'.present THEN expires.keywords ELSE 0,
            diseases |-> IF diseaseCache'.present THEN expires.diseases ELSE 0,
            rate |-> IF rateCache' THEN expires.rate ELSE 0,
            results |-> [k \in DOMAIN resultCache' |-> expires.results[k]]]
    /\ provenance' =
           [provenance EXCEPT
               !.corpus = IF diseaseCache'.present THEN @ ELSE 0,
               !.results = [k \in DOMAIN resultCache' |-> @[k]]]
    /\ UNCHANGED <<tables, pc, locals, rows, response, changes, previous, workers>>

\* the Disease table is edited (admin site); nothing in the program
\* touches the cache on a write
ChangeConditions ==
    /\ pc = "idle"
    /\ Len(changes) < MaxChanges
    /\ \E table \in TimedDiseaseTables \ {diseaseTable} : diseaseTable' = table
    /\ changes' = Append(changes, now)
    /\ UNCHANGED <<symptomTable, keywordTable, dbFaulty, caches, pc, locals, rows,
                   response, now, expires, provenance, previous, workers>>

TimedInit ==
    /\ symptomTable = SeedSymptoms
    /\ keywordTable = SeedKeywords
    /\ diseaseTable \in TimedDiseaseTables
    /\ dbFaulty = FALSE
    /\ ColdCaches
    /\ Idle
    /\ AtStart

TimedNext ==
    \/ ReachStep3
    \/ RagRetrieval
    \/ GenerateResponse
    \/ Finish
    \/ Advance
    \/ ChangeConditions

TimedSpec == TimedInit /\ [][TimedNext]_vars

(***************************************************************************)
(* The program with the previous message kept for comparison               *)
(***************************************************************************)
\* the reply is sent; the message and what was computed for it are kept
\* when the reference data were available to it
FinishAndRemember ==
    /\ pc = "done"
    /\ pc' = "idle"
    /\ previous' = IF outage = {}
                   THEN [recorded |-> TRUE,
                         message |-> user_message,
                         extracted |-> "extract_symptoms" \in Range(calls),
                         symptoms |-> symptoms,
                         retrieved |-> "retrieve_relevant_first_aid" \in Range(calls),
                         results |-> first_aid_results,
                         outage |-> outage]
                   ELSE NoPrevious
    /\ user_message' = <<>>
    /\ admitted' = FALSE
    /\ symptoms' = <<>>
    /\ emergencies' = <<>>
    /\ first_aid_results' = <<>>
    /\ matched_diseases' = <<>>
    /\ calls' = <<>>
    /\ raised' = {}
    /\ outage' = {}
    /\ chat_messages' = <<>>
    /\ emergency_logs' = <<>>
    /\ symptom_logs' = <<>>
    /\ response' = NoResponse
    /\ provenance' = [provenance EXCEPT !.served = -1, !.hit = FALSE]
    /\ UNCHANGED <<tables, caches, now, expires, changes, workers>>

\* a cache entry reaches its timeout between two messages
ExpireBetween == pc = "idle" /\ Expire

RepeatInit ==
    /\ symptomTable = <<SymptomBb, SymptomA>>
    /\ keywordTable = <<KeywordBa>>
    /\ diseaseTable \in {<<>>, SeedDiseases}
    /\ dbFaulty = FALSE
    /\ ColdCaches
    /\ Idle
    /\ AtStart

RepeatNext ==
    \/ ReceiveMessage
    \/ NlpProcessing
    \/ EmergencyDetection
    \/ EmergencyExit
    \/ RagRetrieval
    \/ GenerateResponse
    \/ FinishAndRemember
    \/ ExpireBetween

RepeatSpec == RepeatInit /\ [][RepeatNext]_vars

(***************************************************************************)
(* extract_symptoms, detect_emergency and retrieve_relevant_first_aid      *)
(* called side by side on the shared cache, one action per cache or store  *)
(* operation of a call. The reference tables do not change and the store   *)
(* answers.                                                                *)
(***************************************************************************)
WorkerTexts == {<<"a">>, <<"b", "a">>, <<"A", "b">>}

\* a call that has not started: the result cache is read first by the
\* retriever, the list cache by the other two
Call(op, input) ==
    [op |-> op, input |-> input,
     pc |-> IF op = "retrieve_relevant_first_aid" THEN "result_get" ELSE "get",
     rows |-> <<>>, wrote |-> FALSE, output |-> <<>>]

Calls ==
    {Call("extract_symptoms", text) : text \in WorkerTexts} \cup
    {Call("detect_emergency", text) : text \in WorkerTexts} \cup
    {Call("retrieve_relevant_first_aid", tags) : tags \in TimedTagLists}

\* the cache entry a call's list is kept in
ListCache(op) ==
    CASE op = "extract_symptoms" -> symptomCache
      [] op = "detect_emergency" -> keywordCache
      [] op = "retrieve_relevant_first_aid" -> diseaseCache

\* the cache after a get that found nothing, with a placeholder left for
\* the calls that come next
AfterMissPlaceholder(cache) == Entry(<<>>)

\* the cache after a get that found nothing: as it was
AfterMiss(cache) == cache

\* cache.get(cache_key) of the three list getters
CacheGet(w) ==
    /\ workers[w].pc = "get"
    /\ LET op == workers[w].op
           entry == ListCache(op)
       IN  IF entry.present
           THEN /\ workers' = [workers EXCEPT ![w].rows = entry.value,
                                              ![w].pc = "compute"]
                /\ UNCHANGED <<symptomCache, keywordCache, diseaseCache>>
           ELSE /\ workers' = [workers EXCEPT ![w].pc = "fetch"]
                /\ symptomCache' = IF op = "extract_symptoms"
                                   THEN AfterMiss(symptomCache) ELSE symptomCache
                /\ keywordCache' = IF op = "detect_emergency"
                                   THEN AfterMiss(keywordCache) ELSE keywordCache
                /\ diseaseCache' = IF op = "retrieve_relevant_first_aid"
                                   THEN AfterMiss(diseaseCache) ELSE diseaseCache
    /\ UNCHANGED <<tables, resultCache, rateCache, pc, locals, rows, response, now,
                   expires, changes, provenance, previous>>

\* the read of the table: list(queryset), and for the retriever the loop of
\* lines 43-54, whose exception ends the call with []
StoreFetch(w) ==
    /\ workers[w].pc = "fetch"
    /\ LET op == workers[w].op
       IN  workers' =
               CASE op = "extract_symptoms" ->
                        [workers EXCEPT ![w].rows = symptomTable, ![w].pc = "set"]
                 [] op = "detect_emergency" ->
                        [workers EXCEPT ![w].rows = keywordTable, ![w].pc = "set"]
                 [] op = "retrieve_relevant_first_aid" ->
                        IF PrefetchRaises(diseaseTable) \/ NameRaises(diseaseTable)
                        THEN [workers EXCEPT ![w].output = <<>>, ![w].pc = "done"]
                        ELSE [workers EXCEPT
                                 ![w].rows = [i \in 1..Len(diseaseTable) |->
                                                 DiseaseData(diseaseTable[i])],
                                 ![w].pc = "set"]
    /\ UNCHANGED <<tables, caches, pc, locals, rows, response, now, expires, changes,
                   provenance, previous>>

\* cache.set(cache_key, list, timeout) of the three list getters
CacheSet(w) ==
    /\ workers[w].pc = "set"
    /\ LET op == workers[w].op
           entry == Entry(workers[w].rows)
       IN  /\ symptomCache' = IF op = "extract_symptoms" THEN entry ELSE symptomCache
           /\ keywordCache' = IF op = "detect_emergency" THEN entry ELSE keywordCache
           /\ diseaseCache' = IF op = "retrieve_relevant_first_aid" THEN entry
                              ELSE diseaseCache
           /\ expires' =
                  CASE op = "extract_symptoms" ->
                           [expires EXCEPT !.symptoms = now + SYMPTOMS_CACHE_TIMEOUT]
                    [] op = "detect_emergency" ->
                           [expires EXCEPT
                               !.keywords = now + EMERGENCY_KEYWORDS_CACHE_TIMEOUT]
                    [] op = "retrieve_relevant_first_aid" ->
                           [expires EXCEPT !.diseases = now + DISEASE_CACHE_TIMEOUT]
           /\ provenance' = IF op = "retrieve_relevant_first_aid"
                            THEN [provenance EXCEPT !.corpus = Len(changes)]
                            ELSE provenance
    /\ workers' = [workers EXCEPT ![w].pc = "compute", ![w].wrote = TRUE]
    /\ UNCHANGED <<tables, resultCache, rateCache, pc, locals, rows, response, now,
                   changes, previous>>

\* the loops over the list at hand
Compute(w) ==
    /\ workers[w].pc = "compute"
    /\ LET op == workers[w].op
           got == [raised |-> FALSE, value |-> workers[w].rows]
       IN  workers' =
               CASE op = "extract_symptoms" ->
                        [workers EXCEPT
                            ![w].output = ExtractSymptoms(workers[w].input, got),
                            ![w].pc = "done"]
                 [] op = "detect_emergency" ->
                        [workers EXCEPT
                            ![w].output = DetectEmergency(workers[w].input, got),
                            ![w].pc = "done"]
                 [] op = "retrieve_relevant_first_aid" ->
                        [workers EXCEPT
                            ![w].output =
                                RankedMatches(workers[w].rows,
                                              NormaliseSymptoms(workers[w].input)),
                            ![w].pc = "result_set"]
    /\ UNCHANGED <<tables, caches, pc, locals, rows, response, now, expires, changes,
                   provenance, previous>>

\* lines 88-98: the normalisation and cache.get(cache_key) of the result
ResultGet(w) ==
    /\ workers[w].pc = "result_get"
    /\ LET key == NormaliseSymptoms(workers[w].input)
       IN  workers' =
               IF workers[w].input = <<>> \/ key = {}
               THEN [workers EXCEPT ![w].output = <<>>, ![w].pc = "done"]
               ELSE IF key \in DOMAIN resultCache
               THEN [workers EXCEPT ![w].output = resultCache[key], ![w].pc = "done"]
               ELSE [workers EXCEPT ![w].pc = "get"]
    /\ UNCHANGED <<tables, caches, pc, locals, rows, response, now, expires, changes,
                   provenance, previous>>

\* line 146: cache.set(cache_key, top_results, 300)
ResultSet(w) ==
    /\ workers[w].pc = "result_set"
    /\ LET key == NormaliseSymptoms(workers[w].input)
       IN  /\ resultCache' = CacheSetResult(resultCache, key, workers[w].output)
           /\ expires' = [expires EXCEPT
                              !.results = CacheSetResult(@, key, ResultExpiry(now))]
           /\ provenance' = [provenance EXCEPT
                                 !.results = CacheSetResult(@, key, provenance.corpus)]
    /\ workers' = [workers EXCEPT ![w].pc = "done"]
    /\ UNCHANGED <<tables, symptomCache, keywordCache, diseaseCache, rateCache, pc,
                   locals, rows, response, now, changes, previous>>

ConcurrentInit ==
    /\ symptomTable = SeedSymptoms
    /\ keywordTable = SeedKeywords
    /\ diseaseTable \in {<<>>, SeedDiseases}
    /\ dbFaulty = FALSE
    /\ ColdCaches
    /\ Idle
    /\ now = 0
    /\ changes = <<>>
    /\ provenance = NoProvenance
    /\ previous = NoPrevious
    /\ workers \in [1..MaxWorkers -> Calls]

ConcurrentNext ==
    \/ \E w \in DOMAIN workers : CacheGet(w)
    \/ \E w \in DOMAIN workers : StoreFetch(w)
    \/ \E w \in DOMAIN workers : CacheSet(w)
    \/ \E w \in DOMAIN workers : Compute(w)
    \/ \E w \in DOMAIN workers : ResultGet(w)
    \/ \E w \in DOMAIN workers : ResultSet(w)
    \/ Expire

ConcurrentSpec == ConcurrentInit /\ [][ConcurrentNext]_vars

(***************************************************************************)
(* Requests that follow one another at Step 3 with the corpus at hand: the *)
(* first runs the matching loop on the diseases_data of the table and      *)
(* leaves corpus and result in the cache, the next ones go through         *)
(* retrieve_relevant_first_aid with the corpus cached, result entries      *)
(* timing out in between (their timeout is the shorter one).               *)
(***************************************************************************)
\* every way of the bound to write one of three normalised tag sets as a
\* list of tags
PairTagLists ==
    {tags \in ExtractedLists :
        {Strip(Lower(t)) : t \in Range(tags)} \in
            { {<<"a">>, <<"a", "b">>}, {<<"b", "b">>}, {<<"a", "b">>} }}

PairInit ==
    /\ symptomTable = SeedSymptoms
    /\ keywordTable = SeedKeywords
    /\ diseaseTable \in {SeedDiseases, <<DiseaseAb, DiseaseBa>>,
                         <<DiseaseAa, DiseaseB, DiseaseA>>}
    /\ dbFaulty = FALSE
    /\ ColdCaches
    /\ Idle
    /\ AtStart

\* Steps 0-2 of a request that reaches Step 3 with one of the lists
NextTagList ==
    /\ pc = "idle"
    /\ pc' = "rag"
    /\ admitted' = TRUE
    /\ user_message' = <<"a">>
    /\ \E extracted \in PairTagLists : symptoms' = extracted
    /\ calls' = <<"extract_symptoms", "detect_emergency">>
    /\ chat_messages' = <<[role |-> "user", emergency_detected |-> FALSE]>>
    /\ UNCHANGED <<tables, caches, emergencies, first_aid_results, matched_diseases,
                   raised, outage, emergency_logs, symptom_logs, response, now,
                   expires, record>>

\* a result entry reaches its timeout between two requests
ExpireResult ==
    /\ pc = "idle"
    /\ \E key \in DOMAIN resultCache :
         /\ resultCache' = [k \in DOMAIN resultCache \ {key} |-> resultCache[k]]
         /\ expires' = [expires EXCEPT
                            !.results = [k \in DOMAIN resultCache \ {key} |-> @[k]]]
         /\ provenance' = [provenance EXCEPT
                               !.results = [k \in DOMAIN resultCache \ {key} |-> @[k]]]
    /\ UNCHANGED <<tables, symptomCache, keywordCache, diseaseCache, rateCache, pc,
                   locals, rows, response, now, changes, previous, workers>>

\* the first request finds nothing cached, the later ones the corpus
PairNext ==
    \/ NextTagList
    \/ ~diseaseCache.present /\ MatchingLoop
    \/ diseaseCache.present /\ RagRetrieval
    \/ GenerateResponse
    \/ FinishAndRemember
    \/ ExpireResult

PairSpec == PairInit /\ [][PairNext]_vars

(***************************************************************************)
(* Requests that follow one another at Step 3 while the condition store    *)
(* goes down and comes back: every request is kept for comparison, the     *)
(* failed ones included.                                                   *)
(***************************************************************************)
RecoverInit ==
    /\ symptomTable = SeedSymptoms
    /\ keywordTable = SeedKeywords
    /\ diseaseTable \in {<<>>, SeedDiseases, <<DiseaseAb, DiseaseBa>>}
    /\ dbFaulty = FALSE
    /\ ColdCaches
    /\ Idle
    /\ AtStart

\* the reply is sent; the request is kept with the stores it found down
FinishAndRememberAll ==
    /\ pc = "done"
    /\ pc' = "idle"
    /\ previous' = [recorded |-> TRUE,
                    message |-> user_message,
                    extracted |-> "extract_symptoms" \in Range(calls),
                    symptoms |-> symptoms,
                    retrieved |-> "retrieve_relevant_first_aid" \in Range(calls),
                    results |-> first_aid_results,
                    outage |-> outage]
    /\ user_message' = <<>>
    /\ admitted' = FALSE
    /\ symptoms' = <<>>
    /\ emergencies' = <<>>
    /\ first_aid_results' = <<>>
    /\ matched_diseases' = <<>>
    /\ calls' = <<>>
    /\ raised' = {}
    /\ outage' = {}
    /\ chat_messages' = <<>>
    /\ emergency_logs' = <<>>
    /\ symptom_logs' = <<>>
    /\ response' = NoResponse
    /\ provenance' = [provenance EXCEPT !.served = -1, !.hit = FALSE]
    /\ UNCHANGED <<tables, caches, now, expires, changes, workers>>

RecoverNext ==
    \/ NextTagList
    \/ RagRetrieval
    \/ GenerateResponse
    \/ FinishAndRememberAll
    \/ ExpireResult

RecoverSpec == RecoverInit /\ [][RecoverNext]_vars

(***************************************************************************)
(* views.py, lines 200-217 and 315-321: check_rate_limit for the requests  *)
(* of one session handled by several workers, statement by statement. A    *)
(* worker keeps the instants at which check_rate_limit let its requests    *)
(* pass.                                                                   *)
(***************************************************************************)
RateInit ==
    /\ symptomTable = SeedSymptoms
    /\ keywordTable = SeedKeywords
    /\ diseaseTable = SeedDiseases
    /\ dbFaulty = FALSE
    /\ ColdCaches
    /\ Idle
    /\ now = 0
    /\ changes = <<>>
    /\ provenance = NoProvenance
    /\ previous = NoPrevious
    /\ workers = [w \in 1..MaxWorkers |-> [pc |-> "idle", passed |-> {}, rejected |-> 0]]

\* lines 300-313: a request of the session arrives and passes validate_message
Arrive(w) ==
    /\ workers[w].pc = "idle"
    /\ workers' = [workers EXCEPT ![w].pc = "rate_get"]
    /\ UNCHANGED <<tables, caches, pc, locals, rows, response, now, expires, changes,
                   provenance, previous>>

\* line 212: `if cache.get(cache_key):`, with the rejection of lines 213-214
RateGet(w) ==
    /\ workers[w].pc = "rate_get"
    /\ workers' = IF rateCache
                  THEN [workers EXCEPT ![w].pc = "idle", ![w].rejected = 1]
                  ELSE [workers EXCEPT ![w].pc = "rate_set"]
    /\ UNCHANGED <<tables, caches, pc, locals, rows, response, now, expires, changes,
                   provenance, previous>>

\* lines 216-217: cache.set(cache_key, True, RATE_LIMIT_SECONDS); return True
RateSet(w) ==
    /\ workers[w].pc = "rate_set"
    /\ rateCache' = TRUE
    /\ expires' = [expires EXCEPT !.rate = now + RATE_LIMIT_SECONDS]
    /\ workers' = [workers EXCEPT ![w].pc = "idle", ![w].passed = @ \cup {now}]
    /\ UNCHANGED <<tables, symptomCache, keywordCache, diseaseCache, resultCache, pc,
                   locals, rows, response, now, changes, provenance, previous>>

\* a second passes; the backend drops the entry when its timeout is reached
Tick ==
    /\ now < MaxTicks
    /\ now' = now + 1
    /\ rateCache' = IF rateCache /\ Expired(expires.rate, now') THEN FALSE ELSE rateCache
    /\ UNCHANGED <<tables, symptomCache, keywordCache, diseaseCache, resultCache, pc,
                   locals, rows, response, expires, changes, provenance, previous,
                   workers>>

RateNext ==
    \/ \E w \in DOMAIN workers : Arrive(w)
    \/ \E w \in DOMAIN workers : RateGet(w)
    \/ \E w \in DOMAIN workers : RateSet(w)
    \/ Tick

RateSpec == RateInit /\ [][RateNext]_vars

(***************************************************************************)
(* The program on a database whose writes may raise                        *)
(***************************************************************************)
FaultyInit ==
    /\ symptomTable = SeedSymptoms
    /\ keywordTable \in KeywordTables
    /\ diseaseTable \in {<<>>, SeedDiseases}
    /\ dbFaulty = TRUE
    /\ ColdCaches
    /\ Idle
    /\ AtStart

FaultySpec == FaultyInit /\ [][Next]_vars

(***************************************************************************)
(* nlp_processor.py, lines 118-159: extract_symptoms pass by pass. The     *)
(* request stands at Step 1, the lexicon is read from the table, and       *)
(* `symptoms` holds the list `extracted` between the two passes.           *)
(***************************************************************************)
LexiconTables == ListsUpTo(SymptomPool \cup {SymptomCommas}, MaxSymptoms)

\* the messages validate_message lets through
AdmittedMessages == {Strip(raw) : raw \in RawMessages} \ {<<>>}

LexiconInit ==
    /\ symptomTable \in LexiconTables
    /\ keywordTable = SeedKeywords
    /\ diseaseTable = SeedDiseases
    /\ dbFaulty = FALSE
    /\ symptomCache = NoEntry
    /\ keywordCache = NoEntry
    /\ diseaseCache = NoEntry
    /\ resultCache = <<>>
    /\ rateCache = TRUE
    /\ expires = [NoExpiry EXCEPT !.rate = RATE_LIMIT_SECONDS]
    /\ pc = "nlp"
    /\ user_message \in AdmittedMessages
    /\ admitted = TRUE
    /\ symptoms = <<>>
    /\ emergencies = <<>>
    /\ first_aid_results = <<>>
    /\ matched_diseases = <<>>
    /\ calls = <<>>
    /\ raised = {}
    /\ outage = {}
    /\ chat_messages = <<[role |-> "user", emergency_detected |-> FALSE]>>
    /\ emergency_logs = <<>>
    /\ symptom_logs = <<>>
    /\ response = NoResponse
    /\ AtStart

\* lines 118-138: the lexicon is fetched and Method 1 runs over it
LexiconLoop ==
    /\ pc = "nlp"
    /\ LET fetch == GetAllSymptoms(symptomCache, TRUE, symptomTable)
       IN  /\ symptoms' = LexiconPass(fetch.value, Lower(user_message), <<>>)
           /\ symptomCache' = fetch.cache
    /\ expires' = [expires EXCEPT !.symptoms = now + SYMPTOMS_CACHE_TIMEOUT]
    /\ pc' = "lexicon"
    /\ UNCHANGED <<tables, keywordCache, diseaseCache, resultCache, rateCache,
                   user_message, admitted, emergencies, first_aid_results,
                   matched_diseases, calls, raised, outage, rows, response, now,
                   record>>

\* lines 145-159: Method 2 and the removal of duplicates
SynonymLoop ==
    /\ pc = "lexicon"
    /\ symptoms' = Unique(VariationPass(SymptomVariations, Lower(user_message),
                                        symptoms),
                          {}, <<>>)
    /\ calls' = Append(calls, "extract_symptoms")
    /\ pc' = AfterNlp
    /\ UNCHANGED <<tables, caches, user_message, admitted, emergencies,
                   first_aid_results, matched_diseases, raised, outage, rows,
                   response, now, expires, record>>

LexiconNext ==
    \/ LexiconLoop
    \/ SynonymLoop

LexiconSpec == LexiconInit /\ [][LexiconNext]_vars

(***************************************************************************)
(* Properties                                                              *)
(***************************************************************************)
Called(operation) == operation \in Range(calls)

\* C1: once detect_emergency has returned a non-empty list for a message,
\* the message ends with a response of type 'emergency';
\* retrieve_relevant_first_aid and format_medical_response are never called
\* for it, no SymptomLog is written, and the response carries no symptom or
\* condition output.
C1_EmergencyShortCircuit ==
    (Called("detect_emergency") /\ emergencies /= <<>>) =>
        /\ pc \in {"emergency", "done"}
        /\ ~Called("retrieve_relevant_first_aid")
        /\ ~Called("format_medical_response")
        /\ symptom_logs = <<>>
        /\ first_aid_results = <<>>
        /\ matched_diseases = <<>>
        /\ pc = "done" =>
               /\ response.type = "emergency"
               /\ response.symptoms_detected = <<>>
               /\ response.formatted = <<>>
               /\ response.listed = <<>>

\* an emergency reply to a message in which symptoms had been extracted
C1_Witness ==
    /\ pc = "done"
    /\ response.type = "emergency"
    /\ symptoms /= <<>>
    /\ emergencies /= <<>>

Before(first, second) ==
    \A i \in 1..Len(calls) :
        calls[i] = second => \E j \in 1..(i - 1) : calls[j] = first

SuccessfulOutcomes == {"emergency", "matched", "no_match", "no_symptoms"}

\* the outcomes a reply carries: its type, and for a normal reply the
\* formatted match or the fallback text used
OutcomesOf(reply) ==
    {o \in SuccessfulOutcomes :
        \/ o = "emergency" /\ reply.type = "emergency"
        \/ o = "matched" /\ reply.type = "normal" /\ reply.formatted /= <<>>
        \/ o = "no_match" /\ reply.type = "normal" /\ reply.kind = "no_match"
        \/ o = "no_symptoms" /\ reply.type = "normal" /\ reply.kind = "no_symptoms"}

\* C3: every message that passes validation and rate limiting ends in
\* exactly one of four outcomes: emergency when the detection set is
\* non-empty; else 'no symptoms identified' when no symptom was extracted;
\* else 'symptoms found, no condition matched' when the matcher returned
\* nothing; else the matched-condition response formatted from the first,
\* highest-confidence result.
C3_ExactlyOneOutcome ==
    (pc = "done" /\ admitted) =>
        /\ Cardinality(OutcomesOf(response)) = 1
        /\ OutcomesOf(response) =
               IF emergencies /= <<>> THEN {"emergency"}
               ELSE IF symptoms = <<>> THEN {"no_symptoms"}
               ELSE IF first_aid_results = <<>> THEN {"no_match"}
               ELSE {"matched"}
        /\ response.formatted /= <<>> =>
               /\ response.formatted[1].headline = first_aid_results[1].disease
               /\ response.formatted[1].steps = first_aid_results[1].first_aid.steps
               /\ \A i \in 1..Len(first_aid_results) :
                      ~ConfidenceLess(first_aid_results[1].confidence,
                                      first_aid_results[i].confidence)

\* symptoms were extracted, no emergency, no result: the 'no match' reply
C3_Witness ==
    /\ pc = "done"
    /\ admitted
    /\ emergencies = <<>>
    /\ Len(symptoms) = 2
    /\ first_aid_results = <<>>
    /\ OutcomesOf(response) = {"no_match"}
    /\ response.listed = symptoms

\* C4: whichever of the three reference-data fetches raise, an admitted
\* message never gets an error response: it ends in one of the four
\* outcomes; a failed keyword fetch gives no emergency, a failed condition
\* fetch gives 'no match', and with all three failed the outcome is
\* 'no symptoms identified' or 'no match'.
C4_ReferenceFailuresNeverError ==
    (pc = "done" /\ admitted) =>
        /\ response.type /= "error"
        /\ OutcomesOf(response) /= {}
        /\ "keywords" \in raised => "emergency" \notin OutcomesOf(response)
        /\ "diseases" \in raised => OutcomesOf(response) = {"no_match"}
        /\ raised = {"symptoms", "keywords", "diseases"} =>
               OutcomesOf(response) \subseteq {"no_symptoms", "no_match"}

\* all three fetches raised and the reply is the 'no match' text
C4_Witness ==
    /\ pc = "done"
    /\ admitted
    /\ raised = {"symptoms", "keywords", "diseases"}
    /\ response.listed /= <<>>

\* the rows of a keyword list whose lowercased keyword occurs in the
\* lowercased text
KeywordHits(keywords, text) ==
    {i \in 1..Len(keywords) : Contains(Lower(text), Lower(keywords[i].keyword))}

\* the k-th smallest element of a set of indices
Kth(indices, k) ==
    CHOOSE i \in indices : Cardinality({j \in indices : j < i}) = k - 1

RankOf(severity) ==
    IF severity = "CRITICAL" THEN 3
    ELSE IF severity = "URGENT" THEN 2
    ELSE IF severity = "CAUTION" THEN 1
    ELSE 0

\* C5: the severity and message of an emergency response are those of the
\* matched keyword of highest severity rank (CRITICAL 3 > URGENT 2 >
\* CAUTION 1); among matched keywords of equal rank, of the one registered
\* first.
C5_RepresentativeEmergency ==
    (pc = "done" /\ response.type = "emergency") =>
        LET hits == KeywordHits(keywordTable, user_message)
        IN  \E best \in hits :
               /\ \A j \in hits :
                      \/ RankOf(keywordTable[j].severity) <
                             RankOf(keywordTable[best].severity)
                      \/ /\ RankOf(keywordTable[j].severity) =
                                RankOf(keywordTable[best].severity)
                         /\ best <= j
               /\ response.severity = keywordTable[best].severity
               /\ response.message = keywordTable[best].response_message
               /\ response.emergencies[1].keyword = keywordTable[best].keyword

\* two matched keywords of equal rank: the reply is the first registered
C5_Witness ==
    /\ pc = "done"
    /\ response.type = "emergency"
    /\ Len(response.emergencies) = 2
    /\ RankOf(response.emergencies[1].severity) = RankOf(response.emergencies[2].severity)
    /\ response.message = keywordTable[1].response_message

\* C6: when the keyword list is obtained, detect_emergency returns one
\* entry {keyword, severity, message} for every stored keyword whose
\* lowercased form is a substring of the lowercased text, in keyword-store
\* order, and no other entry; it does not stop at the first hit.
C6_AllKeywordMatches ==
    (pc \in {"emergency", "rag", "respond"} /\ "keywords" \notin raised) =>
        LET hits == KeywordHits(keywordTable, user_message)
        IN  /\ Len(emergencies) = Cardinality(hits)
            /\ \A k \in 1..Len(emergencies) :
                   emergencies[k] =
                       [keyword |-> keywordTable[Kth(hits, k)].keyword,
                        severity |-> keywordTable[Kth(hits, k)].severity,
                        message |-> keywordTable[Kth(hits, k)].response_message]

\* two hits returned in store order, the second of higher rank
C6_Witness ==
    /\ pc = "emergency"
    /\ Len(emergencies) = 2
    /\ RankOf(emergencies[1].severity) < RankOf(emergencies[2].severity)
    /\ emergencies[1].keyword = keywordTable[1].keyword

\* C7: when the keyword fetch raises (the store is unavailable and the
\* cache holds no keyword list), detect_emergency returns the empty list,
\* no emergency is reported, and the message goes through symptom
\* extraction and condition matching as if no keyword had matched.
C7_KeywordStoreDown ==
    "keywords" \in raised =>
        /\ emergencies = <<>>
        /\ emergency_logs = <<>>
        /\ pc \in {"rag", "respond", "done"}
        /\ (pc \in {"respond", "done"} /\ symptoms /= <<>>) =>
               Called("retrieve_relevant_first_aid")
        /\ pc = "done" =>
               /\ response = NormalResponse(symptoms, first_aid_results)
               /\ OutcomesOf(response) \subseteq {"matched", "no_match", "no_symptoms"}

\* a stored keyword occurs in the text, the fetch raised, and the message
\* went through extraction and matching to a normal reply
C7_Witness ==
    /\ pc = "done"
    /\ "keywords" \in raised
    /\ KeywordHits(keywordTable, user_message) /= {}
    /\ symptoms /= <<>>
    /\ Called("retrieve_relevant_first_aid")
    /\ response.type = "normal"

\* the emissions of the two passes, one slot per lexicon row and per
\* synonym-table entry, in the order the passes visit them
LexiconHit(row, text_lower) ==
    \/ Contains(text_lower, Lower(row.name))
    \/ /\ row.alternative_names /= <<>>
       /\ \E k \in 1..Len(SplitComma(row.alternative_names)) :
              Contains(text_lower, Lower(Strip(SplitComma(row.alternative_names)[k])))

VariationHit(entry, text_lower) ==
    \E k \in 1..Len(entry.variations) : Contains(text_lower, entry.variations[k])

Emissions(lexicon, text) ==
    [k \in 1..(Len(lexicon) + Len(SymptomVariations)) |->
        IF k <= Len(lexicon)
        THEN [tag |-> lexicon[k].name, hit |-> LexiconHit(lexicon[k], Lower(text))]
        ELSE [tag |-> SymptomVariations[k - Len(lexicon)].symptom,
              hit |-> VariationHit(SymptomVariations[k - Len(lexicon)], Lower(text))]]

FirstEmission(slots, tag) ==
    CHOOSE k \in 1..Len(slots) :
        /\ slots[k].hit /\ slots[k].tag = tag
        /\ \A j \in 1..(k - 1) : ~(slots[j].hit /\ slots[j].tag = tag)

\* the lexicon the lexicon pass went through for this message
LexiconUsed == IF "symptoms" \in raised THEN <<>> ELSE symptomTable

\* C8: the list returned by extract_symptoms holds no tag twice, holds
\* exactly the tags the two passes emit, and orders them by first
\* occurrence in (lexicon-pass emissions in lexicon order) followed by
\* (synonym-table emissions in table order).
C8_UniqueFirstOccurrenceOrder ==
    Called("extract_symptoms") =>
        LET slots == Emissions(LexiconUsed, user_message)
        IN  /\ \A i, j \in 1..Len(symptoms) : i /= j => symptoms[i] /= symptoms[j]
            /\ Range(symptoms) = {slots[k].tag : k \in {x \in 1..Len(slots) : slots[x].hit}}
            /\ \A i, j \in 1..Len(symptoms) :
                   i < j => FirstEmission(slots, symptoms[i]) <
                            FirstEmission(slots, symptoms[j])

\* a lexicon tag the synonym table emits again, then a synonym-only tag
C8_Witness ==
    /\ Called("extract_symptoms")
    /\ "symptoms" \notin raised
    /\ Len(symptoms) = 2
    /\ \E k \in 1..Len(symptomTable) :
           /\ LexiconHit(symptomTable[k], Lower(user_message))
           /\ symptomTable[k].name = symptoms[1]
           /\ \E v \in 1..Len(SymptomVariations) :
                  /\ SymptomVariations[v].symptom = symptoms[1]
                  /\ VariationHit(SymptomVariations[v], Lower(user_message))
    /\ \A k \in 1..Len(symptomTable) : symptomTable[k].name /= symptoms[2]

\* C9: when the lexicon fetch raises, extract_symptoms returns exactly the
\* result of the synonym-table pass: the tags of the entries with a variant
\* in the lowercased text, in table order.
C9_LexiconDown ==
    "symptoms" \in raised =>
        LET hits == {v \in 1..Len(SymptomVariations) :
                        VariationHit(SymptomVariations[v], Lower(user_message))}
        IN  /\ Len(symptoms) = Cardinality(hits)
            /\ \A k \in 1..Len(symptoms) :
                   symptoms[k] = SymptomVariations[Kth(hits, k)].symptom

\* the fetch raised, a stored symptom occurs in the text, a synonym was found
C9_Witness ==
    /\ "symptoms" \in raised
    /\ symptoms /= <<>>
    /\ \E k \in 1..Len(symptomTable) :
           /\ LexiconHit(symptomTable[k], Lower(user_message))
           /\ symptomTable[k].name \notin Range(symptoms)

\* the tags the matcher counts: lowercased, trimmed, without repetition
TagSet(extracted) == {Strip(Lower(t)) : t \in Range(extracted) \ {<<>>}}

SearchText(disease) ==
    Lower(disease.name) \o <<" ">> \o Lower(disease.common_symptoms)

\* C10: every result of retrieve_relevant_first_aid has a match count of at
\* least 1 and at most the size of the normalized tag set, so its
\* confidence is in (0, 1]; a condition whose search text contains none of
\* the tags is not in the output, and tags found in no condition give [].
C10_ConfidenceInRange ==
    Called("retrieve_relevant_first_aid") =>
        LET tags == TagSet(symptoms)
        IN  /\ \A i \in 1..Len(first_aid_results) :
                   LET result == first_aid_results[i]
                   IN  /\ result.confidence.den = Cardinality(tags)
                       /\ 1 <= result.confidence.num
                       /\ result.confidence.num <= result.confidence.den
                       /\ \E d \in Range(diseaseTable) :
                              /\ d.name = result.disease
                              /\ \E t \in tags : Contains(SearchText(d), t)
            /\ (\A d \in Range(diseaseTable) :
                    \A t \in tags : ~Contains(SearchText(d), t)) =>
                   first_aid_results = <<>>

\* a result below confidence 1 while a condition with a procedure and no
\* matching tag is left out
C10_Witness ==
    /\ Called("retrieve_relevant_first_aid")
    /\ "diseases" \notin raised
    /\ first_aid_results /= <<>>
    /\ first_aid_results[1].confidence.num < first_aid_results[1].confidence.den
    /\ \E d \in Range(diseaseTable) :
           /\ d.first_aid_procedures /= <<>>
           /\ \A t \in TagSet(symptoms) : ~Contains(SearchText(d), t)

\* the number of tags in the search text of a condition
MatchCount(disease, tags) ==
    Cardinality({t \in tags : Contains(SearchText(disease), t)})

\* the conditions of a table that can be presented: a tag matches and a
\* first-aid procedure exists
Eligible(table, tags) ==
    {i \in 1..Len(table) :
        /\ table[i].first_aid_procedures /= <<>>
        /\ MatchCount(table[i], tags) > 0}

\* the place of an eligible condition in the order by confidence
\* descending, ties in registration order
Place(table, tags, i) ==
    1 + Cardinality({j \in Eligible(table, tags) :
            \/ MatchCount(table[j], tags) > MatchCount(table[i], tags)
            \/ /\ MatchCount(table[j], tags) = MatchCount(table[i], tags)
               /\ j < i})

\* C11: the output of retrieve_relevant_first_aid is the first three of the
\* eligible conditions (nonzero match count and a first-aid procedure)
\* ordered by confidence descending, ties in registration order: at most 3
\* entries, non-increasing in confidence, and no omitted eligible condition
\* has a higher confidence than a returned one. Stated for the calls in
\* which the condition store answers (an unavailable store is C14).
C11_TopThreeByConfidence ==
    (Called("retrieve_relevant_first_aid") /\ "diseases" \notin outage) =>
        LET tags == TagSet(symptoms)
            eligible == Eligible(diseaseTable, tags)
        IN  /\ Len(first_aid_results) =
                   IF Cardinality(eligible) < 3 THEN Cardinality(eligible) ELSE 3
            /\ \A i \in eligible :
                   Place(diseaseTable, tags, i) <= 3 =>
                       /\ Place(diseaseTable, tags, i) <= Len(first_aid_results)
                       /\ first_aid_results[Place(diseaseTable, tags, i)].disease =
                              diseaseTable[i].name
            /\ \A k \in 1..(Len(first_aid_results) - 1) :
                   ~ConfidenceLess(first_aid_results[k].confidence,
                                   first_aid_results[k + 1].confidence)

\* C12: the confidence of a returned condition is the number of distinct
\* normalized tags that are substrings of the condition's lowercased
\* 'name + space + common_symptoms' text, divided by the number of distinct
\* normalized tags (lowercased, trimmed, duplicates collapsed); repeated or
\* differently-cased copies of a tag in the input change no confidence.
C12_ConfidenceIsMatchRatio ==
    Called("retrieve_relevant_first_aid") =>
        LET tags == {Strip(Lower(symptoms[k])) : k \in 1..Len(symptoms)}
        IN  \A r \in 1..Len(first_aid_results) :
                \E i \in 1..Len(diseaseTable) :
                    /\ diseaseTable[i].name = first_aid_results[r].disease
                    /\ first_aid_results[r].confidence =
                           [num |-> Cardinality({t \in tags :
                                        Contains(Lower(diseaseTable[i].name) \o <<" ">> \o
                                                 Lower(diseaseTable[i].common_symptoms), t)}),
                            den |-> Cardinality(tags)]

\* two copies of one tag, differing in case or blanks, count once: the
\* condition that contains it has confidence 1/1
C12_Witness ==
    /\ Called("retrieve_relevant_first_aid")
    /\ Len(symptoms) = 2
    /\ symptoms[1] /= symptoms[2]
    /\ Cardinality(TagSet(symptoms)) = 1
    /\ first_aid_results /= <<>>
    /\ first_aid_results[1].confidence = [num |-> 1, den |-> 1]

\* C13: a condition with no first-aid procedure never appears in the output
\* of retrieve_relevant_first_aid, whatever its match count; a condition
\* with several procedures is returned with its first procedure only.
C13_FirstProcedureOnly ==
    Called("retrieve_relevant_first_aid") =>
        \A r \in 1..Len(first_aid_results) :
            \E i \in 1..Len(diseaseTable) :
                /\ diseaseTable[i].name = first_aid_results[r].disease
                /\ diseaseTable[i].first_aid_procedures /= <<>>
                /\ first_aid_results[r].first_aid =
                       diseaseTable[i].first_aid_procedures[1]

\* a matching condition without procedure is left out, and one with two
\* procedures is returned with the first
C13_Witness ==
    /\ Called("retrieve_relevant_first_aid")
    /\ \E i \in 1..Len(diseaseTable) :
           /\ diseaseTable[i].first_aid_procedures = <<>>
           /\ MatchCount(diseaseTable[i], TagSet(symptoms)) > 0
    /\ \E r \in 1..Len(first_aid_results), i \in 1..Len(diseaseTable) :
           /\ diseaseTable[i].name = first_aid_results[r].disease
           /\ Len(diseaseTable[i].first_aid_procedures) = 2
           /\ first_aid_results[r].first_aid = diseaseTable[i].first_aid_procedures[1]

\* C14: when the condition fetch raises, retrieve_relevant_first_aid returns
\* the empty list, and process_message answers with the 'symptoms found, no
\* condition matched' reply, not with an error.
C14_ConditionFetchFails ==
    "diseases" \in raised =>
        /\ first_aid_results = <<>>
        /\ matched_diseases = <<>>
        /\ pc \in {"respond", "done"}
        /\ pc = "done" => /\ response.type = "normal"
                          /\ response.kind = "no_match"
                          /\ response.status = 200
                          /\ response.listed = symptoms

\* the condition store was down during the fetch and the reply was sent
C14_Witness ==
    /\ "diseases" \in outage
    /\ pc = "done"
    /\ response.kind = "no_match"
    /\ symptoms /= <<>>

\* C20: when extract_symptoms returned the empty list and no emergency was
\* detected, retrieve_relevant_first_aid is never invoked and the reply is
\* the 'no symptoms identified' fallback.
C20_NoSymptomsNoRetrieval ==
    (/\ admitted
     /\ Called("extract_symptoms") /\ Called("detect_emergency")
     /\ symptoms = <<>> /\ emergencies = <<>>) =>
        /\ ~Called("retrieve_relevant_first_aid")
        /\ symptom_logs = <<>>
        /\ pc = "done" => /\ response.type = "normal"
                          /\ response.kind = "no_symptoms"
                          /\ response.status = 200

\* a message in which nothing was recognised has been answered
C20_Witness ==
    /\ admitted /\ pc = "done"
    /\ Called("extract_symptoms") /\ Called("detect_emergency")
    /\ symptoms = <<>> /\ emergencies = <<>>
    /\ symptomTable /= <<>> /\ "symptoms" \notin raised
    /\ response.kind = "no_symptoms"

\* C15: one bad lexicon record (a null name, a malformed alternative-name
\* string) never aborts the lexicon pass: extract_symptoms still emits every
\* other lexicon symptom that occurs in the text, those stored after the bad
\* record included.
C15_BadLexiconRecordSkipped ==
    (Called("extract_symptoms") /\ "symptoms" \notin raised) =>
        \A i \in 1..Len(symptomTable) :
            (/\ symptomTable[i].name /= NoneName
             /\ LexiconHit(symptomTable[i], Lower(user_message))) =>
                symptomTable[i].name \in Range(symptoms)

WellFormed(disease) == disease.name /= NoneName

\* C16: one bad condition record (a null name) never aborts matching:
\* retrieve_relevant_first_aid skips it and returns every other eligible
\* condition by the normal ranking.
C16_BadConditionRecordSkipped ==
    (/\ Called("retrieve_relevant_first_aid")
     /\ "diseases" \notin outage
     /\ NameRaises(diseaseTable)) =>
        LET others == SelectSeq(diseaseTable, WellFormed)
        IN  first_aid_results =
                RankedMatches([i \in 1..Len(others) |-> DiseaseData(others[i])],
                              NormaliseSymptoms(symptoms))

\* the result of this message was computed from the Disease table as it was
\* before its k-th change
ServedBefore(k) == provenance.served /= -1 /\ provenance.served < k

\* C17 as stated: no call made more than the corpus-cache TTL (3600 s) after
\* a change to the condition data returns a result computed from the data
\* as they were before that change.
C17_FreshAfterCorpusTimeout ==
    Called("retrieve_relevant_first_aid") =>
        \A k \in 1..Len(changes) :
            now > changes[k] + DISEASE_CACHE_TIMEOUT => ~ServedBefore(k)

\* C17, amended: no call made 3900 s (corpus-cache TTL plus result-cache
\* TTL) or more after a change to the condition data returns a result
\* computed from the data as they were before that change.
C17_FreshAfterBothTimeouts ==
    Called("retrieve_relevant_first_aid") =>
        \A k \in 1..Len(changes) :
            now >= changes[k] + DISEASE_CACHE_TIMEOUT + RESULT_CACHE_TIMEOUT =>
                ~ServedBefore(k)

\* a call made 3900 s or more after the change, answered from data read
\* after the change
C17_Witness ==
    /\ Called("retrieve_relevant_first_aid")
    /\ changes /= <<>>
    /\ now >= changes[1] + DISEASE_CACHE_TIMEOUT + RESULT_CACHE_TIMEOUT
    /\ provenance.served = Len(changes)

\* C18: with unchanged and available reference data, extract_symptoms called
\* twice with the same text, and retrieve_relevant_first_aid called twice
\* with the same tag list, return the same output, whatever the state of the
\* cache at either call (cold, warm, expired in between).
C18_SameInputSameOutput ==
    /\ (/\ Called("extract_symptoms") /\ previous.extracted
        /\ user_message = previous.message
        /\ "symptoms" \notin outage) =>
           symptoms = previous.symptoms
    /\ (/\ Called("retrieve_relevant_first_aid") /\ previous.retrieved
        /\ symptoms = previous.symptoms
        /\ "diseases" \notin outage) =>
           first_aid_results = previous.results

\* the same message a second time: the lexicon pass found a tag both times,
\* and the second retrieval was answered by the result cache
C18_Witness ==
    /\ previous.extracted /\ previous.retrieved
    /\ Called("extract_symptoms") /\ Called("retrieve_relevant_first_aid")
    /\ user_message = previous.message
    /\ outage = {}
    /\ \E i \in 1..Len(symptomTable) : symptomTable[i].name \in Range(symptoms)
    /\ provenance.hit

\* what a call returns when it runs alone on a cold cache
Alone(call) ==
    CASE call.op = "extract_symptoms" ->
             ExtractSymptoms(call.input, GetAllSymptoms(NoEntry, TRUE, symptomTable))
      [] call.op = "detect_emergency" ->
             DetectEmergency(call.input,
                             GetEmergencyKeywords(NoEntry, TRUE, keywordTable))
      [] call.op = "retrieve_relevant_first_aid" ->
             RetrieveRelevantFirstAid(<<>>, call.input, <<>>, NoEntry, TRUE,
                                      diseaseTable).value

\* C19: with unchanged reference data, in every interleaving of the
\* cache-get, store-fetch and cache-set steps of several calls of
\* extract_symptoms, detect_emergency and retrieve_relevant_first_aid, each
\* call returns what it returns when run alone, and every cache entry holds
\* the value a single population would have stored.
C19_InterleavingsAgree ==
    /\ \A w \in DOMAIN workers :
           workers[w].pc = "done" => workers[w].output = Alone(workers[w])
    /\ symptomCache.present => symptomCache = GetAllSymptoms(NoEntry, TRUE, symptomTable).cache
    /\ keywordCache.present =>
           keywordCache = GetEmergencyKeywords(NoEntry, TRUE, keywordTable).cache
    /\ diseaseCache.present =>
           diseaseCache = GetDiseasesWithText(NoEntry, TRUE, diseaseTable).cache
    /\ \A key \in DOMAIN resultCache :
           resultCache[key] =
               RankedMatches(GetDiseasesWithText(NoEntry, TRUE, diseaseTable).value, key)

\* two calls of the same operation both missed the cache and both wrote
\* it, and both have returned
C19_Witness ==
    /\ \A w \in DOMAIN workers : workers[w].pc = "done"
    /\ \E v, w \in DOMAIN workers :
           /\ v /= w
           /\ workers[v].op = "extract_symptoms" /\ workers[w].op = "extract_symptoms"
           /\ workers[v].wrote /\ workers[w].wrote
           /\ workers[v].output /= <<>>
    /\ symptomCache.present

\* C21: format_medical_response appends the low-confidence disclaimer if and
\* only if the confidence is below 0.5: a best match that covers exactly
\* half of the extracted tags gets none, one that covers fewer than half
\* gets it.
C21_DisclaimerBelowHalf ==
    (pc = "done" /\ Called("format_medical_response")) =>
        /\ Len(response.formatted) = 1
        /\ response.formatted[1].headline = first_aid_results[1].disease
        /\ response.formatted[1].disclaimer <=>
               (2 * first_aid_results[1].confidence.num
                    < first_aid_results[1].confidence.den)

\* a best match that covers exactly half of the tags is shown without the
\* disclaimer
C21_Witness ==
    /\ pc = "done" /\ Called("format_medical_response")
    /\ first_aid_results[1].confidence = [num |-> 1, den |-> 2]
    /\ ~response.formatted[1].disclaimer

\* C22: in the lexicon pass a symptom is emitted if and only if its
\* lowercased name is a substring of the lowercased input or one of its
\* comma-separated, trimmed, lowercased variants is, and it is emitted at
\* most once: the pass yields the names of the matching rows, once each, in
\* lexicon order.
C22_LexiconPassEmitsMatches ==
    pc = "lexicon" =>
        LET hits == {i \in 1..Len(symptomTable) :
                        LexiconHit(symptomTable[i], Lower(user_message))}
        IN  /\ Len(symptoms) = Cardinality(hits)
            /\ \A k \in 1..Len(symptoms) :
                   symptoms[k] = symptomTable[Kth(hits, k)].name

\* a row whose name and a variant both occur is emitted once, and the other
\* row of the lexicon is not emitted
C22_Witness ==
    /\ pc = "lexicon"
    /\ Len(symptoms) = 1
    /\ Len(symptomTable) = 2
    /\ \E i \in 1..Len(symptomTable) :
           /\ symptomTable[i].name = symptoms[1]
           /\ Contains(Lower(user_message), Lower(symptomTable[i].name))
           /\ AltMatches(SplitComma(symptomTable[i].alternative_names),
                         Lower(user_message))

\* C30: the lexicon pass emits a symptom only when its name or one of its
\* non-empty trimmed variants occurs in the input; empty variants left by
\* stray, doubled or trailing commas never make a symptom match.
C30_EmptyVariantsNeverMatch ==
    pc = "lexicon" =>
        \A k \in 1..Len(symptoms) :
            \E i \in 1..Len(symptomTable) :
                LET row == symptomTable[i]
                    text_lower == Lower(user_message)
                    variants == SplitComma(row.alternative_names)
                IN  /\ row.name = symptoms[k]
                    /\ \/ Contains(text_lower, Lower(row.name))
                       \/ \E v \in 1..Len(variants) :
                              /\ Lower(Strip(variants[v])) /= <<>>
                              /\ Contains(text_lower, Lower(Strip(variants[v])))

\* C23: retrieve_relevant_first_aid depends only on the set of normalised
\* tags: two tag lists that differ only in order, letter case, surrounding
\* blanks or repetition use the same result-cache entry and get the same
\* results, whether the second is served from the cache or computed.
C23_SameTagSetSameResults ==
    (/\ Called("retrieve_relevant_first_aid") /\ previous.retrieved
     /\ TagSet(symptoms) = TagSet(previous.symptoms)
     /\ "diseases" \notin outage) =>
        /\ first_aid_results = previous.results
        /\ Cardinality({key \in DOMAIN resultCache : key = TagSet(symptoms)
                                                  \/ key = TagSet(previous.symptoms)}) <= 1
        /\ TagSet(symptoms) \in DOMAIN resultCache =>
               resultCache[TagSet(symptoms)] = previous.results

\* a list that writes the tags of the previous one differently was answered
\* from the entry the previous one left, with a match
C23_Witness ==
    /\ Called("retrieve_relevant_first_aid") /\ previous.retrieved
    /\ TagSet(symptoms) = TagSet(previous.symptoms)
    /\ symptoms /= previous.symptoms
    /\ provenance.hit
    /\ first_aid_results /= <<>>

\* C24: a matcher failure is never cached: when the condition fetch raised,
\* the result cache was not written, so the first call with the same tags
\* that finds the store available again is not answered from the cache and
\* returns the real matches instead of an empty list.
C24_FailureNotCached ==
    (/\ Called("retrieve_relevant_first_aid") /\ previous.retrieved
     /\ "diseases" \in previous.outage
     /\ TagSet(symptoms) = TagSet(previous.symptoms)
     /\ "diseases" \notin outage) =>
        /\ ~provenance.hit
        /\ first_aid_results =
               RankedMatches([i \in 1..Len(diseaseTable) |-> DiseaseData(diseaseTable[i])],
                             NormaliseSymptoms(symptoms))

\* C25: once detect_emergency has returned a non-empty list, no failure of
\* a later write of the emergency path (creating the EmergencyLog, setting
\* emergency_detected on the stored user message) prevents the emergency
\* response; at worst its emergency_id is null.
C25_EmergencyResponseSurvivesWrites ==
    (pc = "done" /\ Called("detect_emergency") /\ emergencies /= <<>>) =>
        /\ response.type = "emergency"
        /\ response.severity = emergencies[1].severity
        /\ response.emergency_id = IF emergency_logs /= <<>> THEN "id" ELSE "null"

\* C26: a matched keyword whose severity is none of CRITICAL, URGENT and
\* CAUTION (the seeded 'seizure' has 'HIGH') is ranked 0: it still forces the
\* emergency exit when it is the only match, and it is never the
\* representative when a keyword of a recognised severity, be it CAUTION,
\* matches too.
C26_UnrecognisedSeverityRanksLast ==
    (pc = "done" /\ admitted /\ Called("detect_emergency") /\ "keywords" \notin raised) =>
        LET hits == KeywordHits(keywordTable, user_message)
            levels == {"CRITICAL", "URGENT", "CAUTION"}
            recognised == {i \in hits : keywordTable[i].severity \in levels}
        IN  hits \ recognised /= {} =>
                /\ \A i \in hits \ recognised : SeverityRank(keywordTable[i].severity) = 0
                /\ response.type = "emergency"
                /\ recognised /= {} =>
                       /\ response.severity \in levels
                       /\ \E i \in recognised :
                              response.message = keywordTable[i].response_message
                /\ recognised = {} =>
                       /\ response.severity = keywordTable[Kth(hits, 1)].severity
                       /\ response.message = keywordTable[Kth(hits, 1)].response_message

\* the 'HIGH' keyword is registered before a CAUTION keyword, both match,
\* and the reply is the CAUTION one
C26_Witness ==
    /\ pc = "done" /\ admitted /\ Called("detect_emergency")
    /\ Len(keywordTable) = 2
    /\ keywordTable[1].severity = "HIGH" /\ keywordTable[2].severity = "CAUTION"
    /\ KeywordHits(keywordTable, user_message) = {1, 2}
    /\ response.type = "emergency"
    /\ response.severity = "CAUTION"
    /\ response.emergencies[2].severity = "HIGH"

\* C27: check_rate_limit admits at most one message per session within any
\* window of RATE_LIMIT_SECONDS, also when requests of the session run
\* concurrently: no interleaving of the cache.get and cache.set of two
\* requests lets both pass.
C27_OneMessagePerWindow ==
    LET passed == {p \in (DOMAIN workers) \X (0..MaxTicks) :
                      p[2] \in workers[p[1]].passed}
    IN  \A p \in passed, q \in passed :
            p /= q => \/ p[2] - q[2] >= RATE_LIMIT_SECONDS
                      \/ q[2] - p[2] >= RATE_LIMIT_SECONDS

\* C28: a message rejected by validate_message or check_rate_limit is never
\* triaged: detect_emergency, extract_symptoms and the matcher are not
\* invoked, no ChatMessage, EmergencyLog or SymptomLog is written, and an
\* error response is returned, even when the text contains an emergency
\* keyword.
C28_RejectedNeverTriaged ==
    (pc = "done" /\ ~admitted) =>
        /\ calls = <<>>
        /\ symptoms = <<>> /\ emergencies = <<>> /\ first_aid_results = <<>>
        /\ chat_messages = <<>>
        /\ emergency_logs = <<>>
        /\ symptom_logs = <<>>
        /\ response.type = "error"
        /\ response.status = IF ValidateMessage(user_message).ok THEN 429 ELSE 400

\* a message that contains a stored emergency keyword is turned away by the
\* rate limit
C28_Witness ==
    /\ pc = "done" /\ ~admitted
    /\ KeywordHits(keywordTable, user_message) /= {}
    /\ response.status = 429
    /\ chat_messages = <<>>

\* C29: a SymptomLog is written exactly when no emergency was detected and
\* the list of extracted symptoms is not empty, whether or not a condition
\* matched; its matched_diseases are the names and confidences of the
\* matcher's results in the same order (none when the matcher returned
\* nothing or failed).
C29_SymptomLogWritten ==
    (pc \in {"respond", "done"}) =>
        /\ symptom_logs /= <<>> <=> (emergencies = <<>> /\ symptoms /= <<>>)
        /\ symptom_logs /= <<>> =>
               /\ Len(symptom_logs) = 1
               /\ symptom_logs[1].symptoms = symptoms
               /\ symptom_logs[1].matched_diseases =
                      [i \in 1..Len(first_aid_results) |->
                          [name |-> first_aid_results[i].disease,
                           confidence |-> first_aid_results[i].confidence]]
        /\ "diseases" \in raised => \A k \in 1..Len(symptom_logs) :
               symptom_logs[k].matched_diseases = <<>>

\* symptoms were extracted, the matcher failed, and the log is written with
\* no matched condition
C29_Witness ==
    /\ pc = "done"
    /\ emergencies = <<>>
    /\ Len(symptoms) = 2
    /\ "diseases" \in raised
    /\ Len(symptom_logs) = 1
    /\ symptom_logs[1].symptoms = symptoms
    /\ symptom_logs[1].matched_diseases = <<>>

=============================================================================
